---- MODULE Spec2Model ----
(***************************************************************************)
(* A model of the personal finance backend in src/backend/server.py: the   *)
(* users, transactions and budgets collections of the document store and   *)
(* the request handlers that read and write them.                          *)
(*                                                                         *)
(* Conventions.  A datetime is a tuple <<year, month, day>> (the handlers  *)
(* the model covers compare and group datetimes by calendar day); Python's *)
(* None is the empty tuple.  Amounts are integers; a percentage is kept    *)
(* either as an exact fraction [num, den] or, where the code rounds it to  *)
(* two decimals, as an integer number of hundredths.  A uuid4 is a number   *)
(* that is fresh within its collection.  A "YYYY-MM" month string is the   *)
(* tuple                                                                   *)
(* <<year, month>>; a month outside 1..12 stands for a malformed string.   *)
(* A description is a sequence of characters.  A bearer token is the       *)
(* username it was issued for.                                             *)
(***************************************************************************)
EXTENDS Integers, Sequences, FiniteSets, TLC

VARIABLES users, transactions, budgets, uuid, clock, resp, inflight, overlapped

vars == <<users, transactions, budgets, uuid, clock, resp, inflight, overlapped>>

(***************************************************************************)
(* Bounds of the model.                                                    *)
(***************************************************************************)
MaxTx == 2
MaxBudgets == 2
MaxClock == 1

\* Ids handed out to transactions: one delete-and-create beyond a full store.
MaxUuid == MaxTx + 1

(***************************************************************************)
(* Program constants.                                                      *)
(***************************************************************************)
ToListLimit == 1000
BudgetListLimit == 100
MonthlySummaryLimit == 12
DefaultDays == 30

None == <<>>

INCOME == "income"
EXPENSE == "expense"
TransactionType == {INCOME, EXPENSE}

RecurrenceType == {"none", "daily", "weekly", "monthly", "yearly"}

Currency == {"INR", "USD"}

TransactionCategory ==
    {"salary", "freelance", "business", "investment", "other_income",
     "food", "transportation", "housing", "utilities", "entertainment",
     "healthcare", "education", "shopping", "other_expense"}

(***************************************************************************)
(* Sequence helpers.                                                       *)
(***************************************************************************)
Range(s) == {s[i] : i \in DOMAIN s}

Take(s, n) == IF Len(s) <= n THEN s ELSE SubSeq(s, 1, n)

RECURSIVE SumAmounts(_)
SumAmounts(s) == IF s = <<>> THEN 0 ELSE Head(s).amount + SumAmounts(Tail(s))

(***************************************************************************)
(* datetime: the proleptic Gregorian calendar at day granularity.          *)
(***************************************************************************)
IsLeap(y) == (y % 4 = 0 /\ y % 100 # 0) \/ y % 400 = 0

DaysInMonth(y, m) ==
    IF m = 2 THEN (IF IsLeap(y) THEN 29 ELSE 28)
    ELSE IF m \in {4, 6, 9, 11} THEN 30 ELSE 31

ValidDate(d) ==
    /\ d[2] \in 1..12
    /\ d[3] >= 1
    /\ d[3] <= DaysInMonth(d[1], d[2])

DateLT(a, b) ==
    \/ a[1] < b[1]
    \/ a[1] = b[1] /\ a[2] < b[2]
    \/ a[1] = b[1] /\ a[2] = b[2] /\ a[3] < b[3]

DateLE(a, b) == a = b \/ DateLT(a, b)

NextDay(d) ==
    IF d[3] < DaysInMonth(d[1], d[2]) THEN <<d[1], d[2], d[3] + 1>>
    ELSE IF d[2] < 12 THEN <<d[1], d[2] + 1, 1>>
    ELSE <<d[1] + 1, 1, 1>>

PrevDay(d) ==
    IF d[3] > 1 THEN <<d[1], d[2], d[3] - 1>>
    ELSE IF d[2] > 1 THEN <<d[1], d[2] - 1, DaysInMonth(d[1], d[2] - 1)>>
    ELSE <<d[1] - 1, 12, 31>>

RECURSIVE AddDays(_, _)
AddDays(d, n) ==
    IF n = 0 THEN d
    ELSE IF n > 0 THEN AddDays(NextDay(d), n - 1)
    ELSE AddDays(PrevDay(d), n + 1)

\* datetime.replace(year=y, month=m): the ValueError marker when the day does
\* not exist in the target month.
ValueError == <<-1>>

Replace(d, y, m) ==
    IF ValidDate(<<y, m, d[3]>>) THEN <<y, m, d[3]>> ELSE ValueError

\* The day the service was started on, and datetime.utcnow().
Epoch == <<2024, 1, 30>>

utcnow == AddDays(Epoch, clock)

calculate_next_occurrence(date, recurrence_type) ==
    IF recurrence_type = "none" THEN None
    ELSE IF recurrence_type = "daily" THEN AddDays(date, 1)
    ELSE IF recurrence_type = "weekly" THEN AddDays(date, 7)
    ELSE IF recurrence_type = "monthly" THEN
        (IF date[2] = 12 THEN Replace(date, date[1] + 1, 1)
         ELSE Replace(date, date[1], date[2] + 1))
    ELSE IF recurrence_type = "yearly" THEN Replace(date, date[1] + 1, date[2])
    ELSE None

(***************************************************************************)
(* Responses.                                                              *)
(***************************************************************************)
\* The last response sent: the handler that answered, the HTTP status and the
\* body (empty for an error); for create_budget, delete_transaction and
\* update_transaction also who asked for what.
NoResp == [op |-> "none", status |-> 0, body |-> <<>>, req |-> <<>>]

Response(op, status, body) ==
    [op |-> op, status |-> status, body |-> body, req |-> <<>>]

(***************************************************************************)
(* Authentication: get_current_user resolves the token's username.         *)
(***************************************************************************)
UserByName(username) ==
    SelectSeq(users, LAMBDA u : u.username = username)

Authenticated(username) == UserByName(username) # <<>>

get_current_user(username) == Head(UserByName(username))

(***************************************************************************)
(* POST /auth/register                                                     *)
(***************************************************************************)
\* The registrations tried: two distinct users, and one that takes the email of
\* the first and the username of the second.
UserCreate ==
    { [email |-> "a@x.io", username |-> "alice"],
      [email |-> "b@x.io", username |-> "bob"],
      [email |-> "a@x.io", username |-> "bob"] }

Usernames == {user.username : user \in UserCreate}

\* A lookup by username alone.
existing_user_UsernameOnly(user) ==
    SelectSeq(users, LAMBDA u : u.username = user.username)

existing_user(user) ==
    SelectSeq(users, LAMBDA u : u.email = user.email \/ u.username = user.username)

register(user) ==
    /\ IF existing_user(user) # <<>>
       THEN /\ resp' = Response("register", 400, <<>>)
            /\ UNCHANGED users
       ELSE /\ users' = Append(users,
                   [id |-> Len(users) + 1, email |-> user.email,
                    username |-> user.username])
            /\ resp' = Response("register", 200,
                   [access_token |-> user.username, token_type |-> "bearer"])
    /\ UNCHANGED <<transactions, budgets, uuid, clock, inflight, overlapped>>

(***************************************************************************)
(* The Transaction document (created_at, which no handler reads, is left   *)
(* out) and the response model built from it.                              *)
(***************************************************************************)
DefaultCurrency == "INR"

\* Transaction(**fields): a field the caller leaves out takes the model's default.
Transaction(fields) ==
    [id |-> fields.id, user_id |-> fields.user_id, type |-> fields.type,
     category |-> fields.category, amount |-> fields.amount,
     currency |-> IF "currency" \in DOMAIN fields THEN fields.currency
                  ELSE DefaultCurrency,
     description |-> fields.description, date |-> fields.date,
     tags |-> fields.tags, is_recurring |-> fields.is_recurring,
     recurrence_type |-> fields.recurrence_type,
     next_occurrence |-> IF "next_occurrence" \in DOMAIN fields
                         THEN fields.next_occurrence ELSE None]

TransactionResponse(doc) ==
    [id |-> doc.id, type |-> doc.type, category |-> doc.category,
     amount |-> doc.amount, currency |-> doc.currency,
     description |-> doc.description, date |-> doc.date, tags |-> doc.tags,
     is_recurring |-> doc.is_recurring, recurrence_type |-> doc.recurrence_type,
     next_occurrence |-> doc.next_occurrence]

RECURSIVE MapResponse(_)
MapResponse(docs) ==
    IF docs = <<>> THEN <<>>
    ELSE <<TransactionResponse(Head(docs))>> \o MapResponse(Tail(docs))

(***************************************************************************)
(* Store primitives on a collection kept in natural (insertion) order.     *)
(***************************************************************************)
\* A delete_one whose filter leaves out the user_id.
RECURSIVE DeleteOne_IgnoreOwner(_, _, _)
DeleteOne_IgnoreOwner(coll, id, user_id) ==
    IF coll = <<>> THEN <<>>
    ELSE IF Head(coll).id = id THEN Tail(coll)
    ELSE <<Head(coll)>> \o DeleteOne_IgnoreOwner(Tail(coll), id, user_id)

\* delete_one: removes the first document that matches.
RECURSIVE DeleteOne(_, _, _)
DeleteOne(coll, id, user_id) ==
    IF coll = <<>> THEN <<>>
    ELSE IF Head(coll).id = id /\ Head(coll).user_id = user_id THEN Tail(coll)
    ELSE <<Head(coll)>> \o DeleteOne(Tail(coll), id, user_id)

\* cursor.sort("date", -1): descending by date, ties in natural order.
RECURSIVE InsertByDateDesc(_, _)
InsertByDateDesc(x, s) ==
    IF s = <<>> THEN <<x>>
    ELSE IF DateLT(Head(s).date, x.date) THEN <<x>> \o s
    ELSE <<Head(s)>> \o InsertByDateDesc(x, Tail(s))

RECURSIVE SortByDateDesc(_)
SortByDateDesc(s) ==
    IF s = <<>> THEN <<>>
    ELSE InsertByDateDesc(s[Len(s)], SortByDateDesc(SubSeq(s, 1, Len(s) - 1)))

\* A find with no user_id in its filter.
OwnedBy_AnyUser(coll, user_id) == coll

\* find({"user_id": user_id}) on a collection, in natural order.
OwnedBy(coll, user_id) == SelectSeq(coll, LAMBDA t : t.user_id = user_id)

(***************************************************************************)
(* POST /transactions                                                      *)
(***************************************************************************)
\* The request body parses as a TransactionCreate: FastAPI answers 422 without
\* calling the handler when a field is outside its enum.
IsTransactionCreate(transaction) ==
    /\ transaction.type \in TransactionType
    /\ transaction.category \in TransactionCategory
    /\ transaction.currency \in Currency
    /\ transaction.recurrence_type \in RecurrenceType

create_transaction(username, transaction) ==
    /\ Authenticated(username)
    /\ LET current_user == get_current_user(username)
           transaction_date ==
               IF transaction.date # None THEN transaction.date ELSE utcnow
           next_occurrence ==
               IF transaction.is_recurring /\ transaction.recurrence_type # "none"
               THEN calculate_next_occurrence(transaction_date,
                                              transaction.recurrence_type)
               ELSE None
           transaction_obj ==
               Transaction([id |-> uuid, user_id |-> current_user.id,
                            type |-> transaction.type,
                            category |-> transaction.category,
                            amount |-> transaction.amount,
                            currency |-> transaction.currency,
                            description |-> transaction.description,
                            date |-> transaction_date,
                            tags |-> transaction.tags,
                            is_recurring |-> transaction.is_recurring,
                            recurrence_type |-> transaction.recurrence_type,
                            next_occurrence |-> next_occurrence])
       IN  IF ~IsTransactionCreate(transaction)
           THEN /\ resp' = Response("create_transaction", 422, <<>>)
                /\ UNCHANGED <<transactions, uuid>>
           ELSE IF next_occurrence = ValueError
           THEN /\ resp' = Response("create_transaction", 500, <<>>)
                /\ UNCHANGED <<transactions, uuid>>
           ELSE /\ Len(transactions) < MaxTx
                /\ uuid <= MaxUuid
                /\ transactions' = Append(transactions, transaction_obj)
                /\ uuid' = uuid + 1
                /\ resp' = Response("create_transaction", 200,
                                    TransactionResponse(transaction_obj))
    /\ UNCHANGED <<users, budgets, clock, inflight, overlapped>>

(***************************************************************************)
(* GET /transactions                                                       *)
(***************************************************************************)
get_transactions_result(coll, user_id) ==
    MapResponse(Take(SortByDateDesc(OwnedBy(coll, user_id)), ToListLimit))

(***************************************************************************)
(* DELETE /transactions/{transaction_id}                                   *)
(***************************************************************************)
delete_transaction(username, transaction_id) ==
    /\ Authenticated(username)
    /\ LET current_user == get_current_user(username)
           after == DeleteOne(transactions, transaction_id, current_user.id)
           deleted_count == Len(transactions) - Len(after)
       IN  /\ transactions' = after
           /\ resp' = [(IF deleted_count = 0
                         THEN Response("delete_transaction", 404, <<>>)
                         ELSE Response("delete_transaction", 200, <<>>))
                        EXCEPT !.req = <<username, transaction_id>>]
    /\ UNCHANGED <<users, budgets, uuid, clock, inflight, overlapped>>

(***************************************************************************)
(* PUT /transactions/{transaction_id}                                      *)
(***************************************************************************)
\* A replace_one in place of the $set: the document is rebuilt from the update
\* data, its other fields falling back to their defaults.
RECURSIVE UpdateOneData_Replace(_, _, _, _)
UpdateOneData_Replace(coll, id, user_id, data) ==
    IF coll = <<>> THEN <<>>
    ELSE IF Head(coll).id = id /\ Head(coll).user_id = user_id
    THEN <<Transaction([id |-> id, user_id |-> user_id, type |-> data.type,
                        category |-> data.category, amount |-> data.amount,
                        description |-> data.description, date |-> data.date,
                        tags |-> <<>>, is_recurring |-> FALSE,
                        recurrence_type |-> "none"])>> \o Tail(coll)
    ELSE <<Head(coll)>> \o UpdateOneData_Replace(Tail(coll), id, user_id, data)

\* update_one({"id", "user_id"}, {"$set": updated_data}) on the first match.
RECURSIVE UpdateOneData(_, _, _, _)
UpdateOneData(coll, id, user_id, data) ==
    IF coll = <<>> THEN <<>>
    ELSE IF Head(coll).id = id /\ Head(coll).user_id = user_id
    THEN <<[Head(coll) EXCEPT !.type = data.type, !.category = data.category,
                              !.amount = data.amount,
                              !.description = data.description,
                              !.date = data.date]>> \o Tail(coll)
    ELSE <<Head(coll)>> \o UpdateOneData(Tail(coll), id, user_id, data)

update_transaction(username, transaction_id, transaction) ==
    /\ Authenticated(username)
    /\ LET current_user == get_current_user(username)
           existing_transaction ==
               SelectSeq(transactions,
                         LAMBDA t : t.id = transaction_id
                                    /\ t.user_id = current_user.id)
           updated_data ==
               [type |-> transaction.type, category |-> transaction.category,
                amount |-> transaction.amount,
                description |-> transaction.description,
                date |-> IF transaction.date # None THEN transaction.date
                         ELSE utcnow]
           after == UpdateOneData(transactions, transaction_id, current_user.id,
                                  updated_data)
           updated_transaction ==
               Head(SelectSeq(after, LAMBDA t : t.id = transaction_id))
       IN  IF existing_transaction = <<>>
           THEN /\ resp' = [Response("update_transaction", 404, <<>>)
                             EXCEPT !.req = <<username, transaction_id, transaction>>]
                /\ UNCHANGED transactions
           ELSE /\ transactions' = after
                /\ resp' = [Response("update_transaction", 200,
                                      TransactionResponse(updated_transaction))
                             EXCEPT !.req = <<username, transaction_id, transaction>>]
    /\ UNCHANGED <<users, budgets, uuid, clock, inflight, overlapped>>

(***************************************************************************)
(* POST /transactions/process-recurring                                    *)
(***************************************************************************)
AutoGenerated == <<" ", "(", "A", "u", "t", "o", "-", "g", "e", "n", "e", "r", "a", "t", "e", "d", ")">>

\* An update that leaves next_occurrence as it was.
UpdateOneNext_KeepsNext(coll, id, next) == coll

\* update_one({"id": id}, {"$set": {"next_occurrence": next}}) on the first match.
RECURSIVE UpdateOneNext(_, _, _)
UpdateOneNext(coll, id, next) ==
    IF coll = <<>> THEN <<>>
    ELSE IF Head(coll).id = id
    THEN <<[Head(coll) EXCEPT !.next_occurrence = next]>> \o Tail(coll)
    ELSE <<Head(coll)>> \o UpdateOneNext(Tail(coll), id, next)

\* find({"is_recurring": True, "next_occurrence": {"$lte": current_date}}):
\* a null next_occurrence matches no $lte.
DueTransactions(coll, current_date) ==
    SelectSeq(coll, LAMBDA t : /\ t.is_recurring
                               /\ t.next_occurrence # None
                               /\ DateLE(t.next_occurrence, current_date))

\* A copy of the recurring document that keeps its next_occurrence.
new_transaction_KeepsPointer(recurring_transaction, id) ==
    Transaction([id |-> id, user_id |-> recurring_transaction.user_id,
                 type |-> recurring_transaction.type,
                 category |-> recurring_transaction.category,
                 amount |-> recurring_transaction.amount,
                 description |-> recurring_transaction.description \o AutoGenerated,
                 date |-> recurring_transaction.next_occurrence,
                 tags |-> recurring_transaction.tags,
                 is_recurring |-> FALSE,
                 recurrence_type |-> "none",
                 next_occurrence |-> recurring_transaction.next_occurrence])

new_transaction(recurring_transaction, id) ==
    Transaction([id |-> id, user_id |-> recurring_transaction.user_id,
                 type |-> recurring_transaction.type,
                 category |-> recurring_transaction.category,
                 amount |-> recurring_transaction.amount,
                 description |-> recurring_transaction.description \o AutoGenerated,
                 date |-> recurring_transaction.next_occurrence,
                 tags |-> recurring_transaction.tags,
                 is_recurring |-> FALSE,
                 recurrence_type |-> "none"])

\* The loop over the due transactions: the store after the updates made so far,
\* the new transactions collected, the next fresh id, and whether
\* calculate_next_occurrence raised (which ends the handler before insert_many).
RECURSIVE Sweep(_, _, _, _)
Sweep(recurring_transactions, coll, new_transactions, id) ==
    IF recurring_transactions = <<>>
    THEN [coll |-> coll, new_transactions |-> new_transactions, uuid |-> id,
          raised |-> FALSE]
    ELSE LET recurring_transaction == Head(recurring_transactions)
             next_occurrence ==
                 calculate_next_occurrence(recurring_transaction.next_occurrence,
                                           recurring_transaction.recurrence_type)
             collected == Append(new_transactions,
                                 new_transaction(recurring_transaction, id))
         IN  IF next_occurrence = ValueError
             THEN [coll |-> coll, new_transactions |-> collected, uuid |-> id + 1,
                   raised |-> TRUE]
             ELSE Sweep(Tail(recurring_transactions),
                        UpdateOneNext(coll, recurring_transaction.id, next_occurrence),
                        collected, id + 1)

\* The whole handler with no other request in between.  The ids of the
\* instances a faulting run built and never stored are not counted as used.
process_recurring_transactions ==
    /\ LET current_date == utcnow
           recurring_transactions ==
               Take(DueTransactions(transactions, current_date), ToListLimit)
           swept == Sweep(recurring_transactions, transactions, <<>>, uuid)
       IN  IF swept.raised
           THEN /\ transactions' = swept.coll
                /\ uuid' = uuid
                /\ resp' = Response("process_recurring", 500, <<>>)
           ELSE /\ Len(transactions) + Len(recurring_transactions) <= MaxTx
                /\ uuid + Len(recurring_transactions) <= MaxUuid + 1
                /\ transactions' = swept.coll \o swept.new_transactions
                /\ uuid' = swept.uuid
                /\ resp' = Response("process_recurring", 200, Len(swept.new_transactions))
    /\ UNCHANGED <<users, budgets, clock, inflight, overlapped>>

(***************************************************************************)
(* POST /transactions/search                                               *)
(***************************************************************************)
\* An Optional[float] filter is <<>> (None) or <<x>>; Python's truth test of it
\* fails for None and for 0.
TruthyAmount(a) == a # None /\ a[1] # 0

UpperToLower == [c \in {"R", "T", "E", "N"} |-> CASE c = "R" -> "r" [] c = "T" -> "t" [] c = "E" -> "e" [] c = "N" -> "n"]

Lower(c) == IF c \in DOMAIN UpperToLower THEN UpperToLower[c] ELSE c

LowerSeq(s) == [i \in DOMAIN s |-> Lower(s[i])]

\* {"$regex": query, "$options": "i"} for a query of literal characters: a
\* case-insensitive substring test.
RegexMatch(query, description) ==
    \E i \in 0..(Len(description) - Len(query)) :
        LowerSeq(SubSeq(description, i + 1, i + Len(query))) = LowerSeq(query)

SearchMatches(t, user_id, filters) ==
    /\ t.user_id = user_id
    /\ filters.category # "" => t.category = filters.category
    /\ filters.type # "" => t.type = filters.type
    /\ filters.start_date # None => DateLE(filters.start_date, t.date)
    /\ filters.end_date # None => DateLE(t.date, filters.end_date)
    /\ (TruthyAmount(filters.min_amount) \/ TruthyAmount(filters.max_amount)) =>
          /\ TruthyAmount(filters.min_amount) => t.amount >= filters.min_amount[1]
          /\ TruthyAmount(filters.max_amount) => t.amount <= filters.max_amount[1]
    /\ filters.tags # <<>> => Range(t.tags) \cap Range(filters.tags) # {}
    /\ filters.query # <<>> => RegexMatch(filters.query, t.description)

search_transactions_result(coll, user_id, filters) ==
    MapResponse(Take(SortByDateDesc(
        SelectSeq(coll, LAMBDA t : SearchMatches(t, user_id, filters))),
        ToListLimit))

(***************************************************************************)
(* Aggregation helpers: $group keys are tuples of integers, sorted          *)
(* lexicographically.                                                      *)
(***************************************************************************)
RECURSIVE TupleLT(_, _)
TupleLT(a, b) ==
    IF a = <<>> \/ b = <<>> THEN FALSE
    ELSE Head(a) < Head(b) \/ (Head(a) = Head(b) /\ TupleLT(Tail(a), Tail(b)))

RECURSIVE SortAsc(_)
SortAsc(keys) ==
    IF keys = {} THEN <<>>
    ELSE LET least == CHOOSE k \in keys : \A o \in keys : ~TupleLT(o, k)
         IN  <<least>> \o SortAsc(keys \ {least})

RECURSIVE SortDesc(_)
SortDesc(keys) ==
    IF keys = {} THEN <<>>
    ELSE LET most == CHOOSE k \in keys : \A o \in keys : ~TupleLT(k, o)
         IN  <<most>> \o SortDesc(keys \ {most})

SumOfType(docs, type) == SumAmounts(SelectSeq(docs, LAMBDA t : t.type = type))

(***************************************************************************)
(* GET /transactions/summary/monthly                                       *)
(***************************************************************************)
MonthlySummary(key, docs) ==
    LET total_income == SumOfType(docs, INCOME)
        total_expense == SumOfType(docs, EXPENSE)
    IN  [month |-> key, year |-> key[1], total_income |-> total_income,
         total_expense |-> total_expense,
         net_amount |-> total_income - total_expense,
         transactions_count |-> Len(docs)]

\* A pipeline that sorts the months ascending.
get_monthly_summary_result_Ascending(coll, user_id) ==
    LET matched == OwnedBy(coll, user_id)
        monthly_data ==
            Take(SortAsc({<<t.date[1], t.date[2]>> : t \in Range(matched)}),
                 MonthlySummaryLimit)
    IN  [i \in DOMAIN monthly_data |->
            MonthlySummary(monthly_data[i],
                SelectSeq(matched,
                    LAMBDA t : <<t.date[1], t.date[2]>> = monthly_data[i]))]

get_monthly_summary_result(coll, user_id) ==
    LET matched == OwnedBy(coll, user_id)
        monthly_data ==
            Take(SortDesc({<<t.date[1], t.date[2]>> : t \in Range(matched)}),
                 MonthlySummaryLimit)
    IN  [i \in DOMAIN monthly_data |->
            MonthlySummary(monthly_data[i],
                SelectSeq(matched,
                    LAMBDA t : <<t.date[1], t.date[2]>> = monthly_data[i]))]

(***************************************************************************)
(* GET /transactions/summary/categories: the groups come in no particular  *)
(* order, so the result is the set of its entries.                         *)
(***************************************************************************)
get_category_summary_result(coll, user_id) ==
    LET matched == OwnedBy(coll, user_id)
    IN  { LET docs == SelectSeq(matched,
                          LAMBDA t : t.category = k[1] /\ t.type = k[2])
          IN  [category |-> k[1], type |-> k[2],
               total_amount |-> SumAmounts(docs),
               transactions_count |-> Len(docs)]
          : k \in {<<t.category, t.type>> : t \in Range(matched)} }

(***************************************************************************)
(* GET /transactions/trends/daily                                          *)
(***************************************************************************)
DailyTrend(key, docs) ==
    LET income == SumOfType(docs, INCOME)
        expense == SumOfType(docs, EXPENSE)
    IN  [date |-> key, income |-> income, expense |-> expense,
         net |-> income - expense]

get_daily_trends_result(coll, user_id, days) ==
    LET end_date == utcnow
        start_date == AddDays(end_date, -days)
        matched == SelectSeq(coll,
                       LAMBDA t : /\ t.user_id = user_id
                                  /\ DateLE(start_date, t.date)
                                  /\ DateLE(t.date, end_date))
        daily_data == Take(SortAsc({t.date : t \in Range(matched)}), days)
    IN  [i \in DOMAIN daily_data |->
            DailyTrend(daily_data[i],
                SelectSeq(matched, LAMBDA t : t.date = daily_data[i]))]

(***************************************************************************)
(* Currency conversion. Money is counted in hundredths here, so that       *)
(* round(x, 2) is a rounding to an integer.                                *)
(***************************************************************************)
\* round(n / d) to the nearest integer, halves to even.
RoundDiv(n, d) ==
    LET q == n \div d
        r == n % d
    IN  IF 2 * r < d THEN q
        ELSE IF 2 * r > d THEN q + 1
        ELSE IF q % 2 = 0 THEN q ELSE q + 1

\* CURRENCY_RATES as fractions: 83.50 and 0.012.
CURRENCY_RATES(from_currency, to_currency) ==
    IF from_currency = "USD" /\ to_currency = "INR" THEN [num |-> 8350, den |-> 100]
    ELSE IF from_currency = "INR" /\ to_currency = "USD" THEN [num |-> 12, den |-> 1000]
    ELSE [num |-> 1, den |-> 1]

convert_currency(amount, from_currency, to_currency) ==
    IF from_currency = to_currency THEN amount
    ELSE LET rate == CURRENCY_RATES(from_currency, to_currency)
         IN  RoundDiv(amount * rate.num, rate.den)

(***************************************************************************)
(* GET /analytics/financial-insights                                       *)
(***************************************************************************)
ZeroDivisionError == [error |-> "ZeroDivisionError"]

SumOfTypeCurrency(docs, type, currency) ==
    SumAmounts(SelectSeq(docs, LAMBDA t : t.type = type /\ t.currency = currency))

\* k.split("_")[0] and k.split("_")[1] of the key f"{category}_{currency}".
KeyCategory(category) ==
    IF category \in {"other_expense", "other_income"} THEN "other" ELSE category

KeyCurrency(category, currency) ==
    IF category = "other_expense" THEN "expense"
    ELSE IF category = "other_income" THEN "income"
    ELSE currency

\* The keys of a dict filled in the order of docs: first occurrences.
RECURSIVE FirstKeys(_, _)
FirstKeys(keys, seen) ==
    IF keys = <<>> THEN <<>>
    ELSE IF Head(keys) \in seen THEN FirstKeys(Tail(keys), seen)
    ELSE <<Head(keys)>> \o FirstKeys(Tail(keys), seen \cup {Head(keys)})

\* sorted(items, key=amount, reverse=True): stable, equal amounts keep their order.
RECURSIVE InsertByAmountDesc(_, _)
InsertByAmountDesc(x, s) ==
    IF s = <<>> THEN <<x>>
    ELSE IF Head(s).amount < x.amount THEN <<x>> \o s
    ELSE <<Head(s)>> \o InsertByAmountDesc(x, Tail(s))

RECURSIVE SortByAmountDesc(_)
SortByAmountDesc(s) ==
    IF s = <<>> THEN <<>>
    ELSE InsertByAmountDesc(s[Len(s)], SortByAmountDesc(SubSeq(s, 1, Len(s) - 1)))

TopCategoriesLimit == 5

top_categories(docs) ==
    LET expenses == SelectSeq(docs, LAMBDA t : t.type = EXPENSE)
        keys == FirstKeys([i \in DOMAIN expenses |->
                              <<expenses[i].category, expenses[i].currency>>], {})
        category_spending ==
            [i \in DOMAIN keys |->
                [category |-> KeyCategory(keys[i][1]),
                 currency |-> KeyCurrency(keys[i][1], keys[i][2]),
                 amount |-> SumAmounts(SelectSeq(expenses,
                     LAMBDA t : <<t.category, t.currency>> = keys[i]))]]
    IN  Take(SortByAmountDesc(category_spending), TopCategoriesLimit)

spending_trend(docs) ==
    LET mid_point == Len(docs) \div 2
        first_half_expense == SumOfType(SubSeq(docs, 1, mid_point), EXPENSE)
        second_half_expense ==
            SumOfType(SubSeq(docs, mid_point + 1, Len(docs)), EXPENSE)
    IN  IF 10 * second_half_expense > 11 * first_half_expense THEN "increasing"
        ELSE IF 10 * second_half_expense < 9 * first_half_expense THEN "decreasing"
        ELSE "stable"

\* max(daily_totals.keys(), key=...): the first day, in the order of the
\* documents, that has the largest total.
highest_expense_day(docs) ==
    LET expenses == SelectSeq(docs, LAMBDA t : t.type = EXPENSE)
        days == FirstKeys([i \in DOMAIN expenses |-> expenses[i].date], {})
        total(day) == SumAmounts(SelectSeq(expenses, LAMBDA t : t.date = day))
    IN  IF days = <<>> THEN None
        ELSE days[CHOOSE i \in DOMAIN days :
                     /\ \A j \in DOMAIN days : total(days[j]) <= total(days[i])
                     /\ \A j \in 1..(i - 1) : total(days[j]) < total(days[i])]

\* savings_rate in hundredths of a percent, from totals in hundredths of INR.
savings_rate(income_by_currency, expense_by_currency) ==
    LET total_income == 100 * income_by_currency["INR"]
                        + convert_currency(100 * income_by_currency["USD"], "USD", "INR")
        total_expense == 100 * expense_by_currency["INR"]
                         + convert_currency(100 * expense_by_currency["USD"], "USD", "INR")
    IN  IF total_income > 0
        THEN RoundDiv((total_income - total_expense) * 100 * 100, total_income)
        ELSE 0

get_financial_insights_result(coll, user_id, days) ==
    LET end_date == utcnow
        start_date == AddDays(end_date, -days)
        found == Take(SelectSeq(coll,
                          LAMBDA t : /\ t.user_id = user_id
                                     /\ DateLE(start_date, t.date)
                                     /\ DateLE(t.date, end_date)), ToListLimit)
        income_by_currency ==
            [c \in Currency |-> SumOfTypeCurrency(found, INCOME, c)]
        expense_by_currency ==
            [c \in Currency |-> SumOfTypeCurrency(found, EXPENSE, c)]
    IN  IF days = 0 THEN [status |-> 500, body |-> ZeroDivisionError]
        ELSE [status |-> 200,
              body |-> [total_income |-> income_by_currency,
                        total_expense |-> expense_by_currency,
                        net_amount |-> [c \in Currency |->
                            income_by_currency[c] - expense_by_currency[c]],
                        top_spending_categories |-> top_categories(found),
                        spending_trend |-> spending_trend(found),
                        average_daily_expense |-> [c \in Currency |->
                            [num |-> expense_by_currency[c], den |-> days]],
                        highest_expense_day |-> highest_expense_day(found),
                        savings_rate |-> savings_rate(income_by_currency,
                                                      expense_by_currency)]]

(***************************************************************************)
(* GET /analytics/category-breakdown                                       *)
(***************************************************************************)
AggregateListLimit == 100

\* to_list(limit) of an aggregation that has no $sort: all the groups when
\* they are at most limit, otherwise some limit of them.
ToListAny(groups, limit) ==
    IF Cardinality(groups) <= limit THEN groups
    ELSE CHOOSE some \in SUBSET groups : Cardinality(some) = limit

get_category_breakdown_result(coll, user_id) ==
    LET now == utcnow
        start_of_month == <<now[1], now[2], 1>>
        matched == SelectSeq(coll,
                       LAMBDA t : /\ t.user_id = user_id
                                  /\ DateLE(start_of_month, t.date))
        results ==
            ToListAny(
                { LET docs == SelectSeq(matched,
                                  LAMBDA t : <<t.category, t.type, t.currency>> = k)
                  IN  [category |-> k[1], type |-> k[2], currency |-> k[3],
                       total_amount |-> SumAmounts(docs), count |-> Len(docs)]
                  : k \in {<<t.category, t.type, t.currency>> : t \in Range(matched)} },
                AggregateListLimit)
        total_by_type_currency(type, currency) ==
            LET bucket == {r \in results : r.type = type /\ r.currency = currency}
                RECURSIVE Sum(_)
                Sum(rs) == IF rs = {} THEN 0
                           ELSE LET r == CHOOSE x \in rs : TRUE
                                IN  r.total_amount + Sum(rs \ {r})
            IN  Sum(bucket)
    IN  { LET total == total_by_type_currency(result.type, result.currency)
          IN  [category |-> result.category, type |-> result.type,
               total_amount |-> result.total_amount,
               currency |-> result.currency,
               percentage |-> IF total > 0
                              THEN RoundDiv(result.total_amount * 100 * 100, total)
                              ELSE 0,
               transactions_count |-> result.count]
          : result \in results }

(***************************************************************************)
(* GET /analytics/spending-trends                                          *)
(***************************************************************************)
\* Days from 0001-01-01 to the first day of year y, and the day of a date
\* within its year, from 0.
DaysBeforeYear(y) ==
    365 * (y - 1) + ((y - 1) \div 4) - ((y - 1) \div 100) + ((y - 1) \div 400)

RECURSIVE DaysBeforeMonth(_, _)
DaysBeforeMonth(y, m) ==
    IF m = 1 THEN 0 ELSE DaysBeforeMonth(y, m - 1) + DaysInMonth(y, m - 1)

DayOfYear(d) == DaysBeforeMonth(d[1], d[2]) + d[3] - 1

\* 0 for Sunday .. 6 for Saturday (0001-01-01 was a Monday).
Weekday(d) == (1 + DaysBeforeYear(d[1]) + DayOfYear(d)) % 7

\* $week: weeks begin on Sundays, the days before the first Sunday are week 0.
Week(d) == (DayOfYear(d) + 7 - Weekday(d)) \div 7

\* The $group key of a date without its currency, and the label printed for it.
TrendKey(period, d) ==
    IF period = "daily" THEN <<d[1], d[2], d[3]>>
    ELSE IF period = "weekly" THEN <<d[1], Week(d)>>
    ELSE <<d[1], d[2]>>

date_str(period, key) ==
    IF period = "daily" THEN [format |-> "YYYY-MM-DD", fields |-> key]
    ELSE IF period = "weekly" THEN [format |-> "YYYY-Www", fields |-> key]
    ELSE [format |-> "YYYY-MM", fields |-> key]

\* to_list(limit) after a $sort on the date part of the key: the groups of the
\* least keys.
ToListSorted(groups, limit) ==
    IF Cardinality(groups) <= limit THEN groups
    ELSE CHOOSE some \in SUBSET groups :
             /\ Cardinality(some) = limit
             /\ \A g \in some, h \in groups \ some : ~TupleLT(h[1], g[1])

\* The $sort is on the date part of the key only, so the entries of one date
\* (one per currency) come in no particular order: data is the sequence of
\* the dates, each with the set of its entries.
get_spending_trends_result(coll, user_id, period, days) ==
    LET end_date == utcnow
        start_date == AddDays(end_date, -days)
        matched == SelectSeq(coll,
                       LAMBDA t : /\ t.user_id = user_id
                                  /\ DateLE(start_date, t.date)
                                  /\ DateLE(t.date, end_date))
        groups == {<<TrendKey(period, t.date), t.currency>> : t \in Range(matched)}
        results == ToListSorted(groups, AggregateListLimit)
        keys == SortAsc({g[1] : g \in results})
        entry(g) ==
            LET docs == SelectSeq(matched,
                            LAMBDA t : <<TrendKey(period, t.date), t.currency>> = g)
                income == SumOfType(docs, INCOME)
                expense == SumOfType(docs, EXPENSE)
            IN  [date |-> date_str(period, g[1]), income |-> income,
                 expense |-> expense, net |-> income - expense,
                 currency |-> g[2]]
    IN  [period |-> period,
         data |-> [i \in DOMAIN keys |->
                      {entry(g) : g \in {r \in results : r[1] = keys[i]}}]]

(***************************************************************************)
(* Budgets.                                                                *)
(***************************************************************************)
\* Budget(**fields): a field the caller leaves out takes the model's default.
Budget(fields) ==
    [id |-> fields.id, user_id |-> fields.user_id, category |-> fields.category,
     budget_amount |-> fields.budget_amount,
     currency |-> IF "currency" \in DOMAIN fields THEN fields.currency
                  ELSE DefaultCurrency,
     month |-> fields.month]

\* BudgetResponse(**fields): every field of the response model is required.
BudgetResponseFields == {"id", "category", "budget_amount", "currency", "month", "spent_amount", "remaining_amount", "percentage_used"}

ValidationError == [error |-> "ValidationError"]

IsError(r) == "error" \in DOMAIN r

BudgetResponse(fields) ==
    IF BudgetResponseFields \subseteq DOMAIN fields
    THEN [f \in BudgetResponseFields |-> fields[f]]
    ELSE ValidationError

\* datetime.strptime(month + "-01", "%Y-%m-%d")
strptime(month) ==
    IF month[2] \in 1..12 THEN <<month[1], month[2], 1>> ELSE ValueError

\* The first day of the month after start_date.
MonthEnd(start_date) ==
    IF start_date[2] = 12 THEN Replace(start_date, start_date[1] + 1, 1)
    ELSE Replace(start_date, start_date[1], start_date[2] + 1)

\* spent / budget * 100 as an exact fraction, 0 for a budget that is not positive.
Percentage(spent_amount, budget_amount) ==
    IF budget_amount > 0 THEN [num |-> spent_amount * 100, den |-> budget_amount]
    ELSE [num |-> 0, den |-> 1]

\* round(p, 2) in hundredths, halves to even.
Round2(p) ==
    LET n == p.num * 100
        q == n \div p.den
        r == n % p.den
    IN  IF 2 * r < p.den THEN q
        ELSE IF 2 * r > p.den THEN q + 1
        ELSE IF q % 2 = 0 THEN q ELSE q + 1

\* The expense query of create_budget and get_budgets: no currency in it.
SpentQuery(txs, user_id, category, start_date, end_date) ==
    Take(SelectSeq(txs, LAMBDA t : /\ t.user_id = user_id
                                   /\ t.category = category
                                   /\ t.type = EXPENSE
                                   /\ DateLE(start_date, t.date)
                                   /\ DateLT(t.date, end_date)),
         ToListLimit)

\* The expense query of get_budget_progress: the budget's currency is part of it.
SpentQueryCurrency(txs, user_id, category, currency, start_date, end_date) ==
    Take(SelectSeq(txs, LAMBDA t : /\ t.user_id = user_id
                                   /\ t.category = category
                                   /\ t.type = EXPENSE
                                   /\ t.currency = currency
                                   /\ DateLE(start_date, t.date)
                                   /\ DateLT(t.date, end_date)),
         ToListLimit)

\* update_one({"id": id}, {"$set": {"budget_amount": amount}}) on the first match.
RECURSIVE UpdateOneAmount(_, _, _)
UpdateOneAmount(coll, id, amount) ==
    IF coll = <<>> THEN <<>>
    ELSE IF Head(coll).id = id
    THEN <<[Head(coll) EXCEPT !.budget_amount = amount]>> \o Tail(coll)
    ELSE <<Head(coll)>> \o UpdateOneAmount(Tail(coll), id, amount)

(***************************************************************************)
(* POST /budgets                                                           *)
(***************************************************************************)
\* A lookup that never finds the budget.
ExistingBudget_FindsNone(coll, user_id, budget) ==
    SelectSeq(coll, LAMBDA b : FALSE)

ExistingBudget(coll, user_id, budget) ==
    SelectSeq(coll, LAMBDA b : /\ b.user_id = user_id
                               /\ b.category = budget.category
                               /\ b.month = budget.month)

\* The request body parses as a BudgetCreate: the category and the currency are
\* in their enums; month is any str.
IsBudgetCreate(budget) ==
    /\ budget.category \in TransactionCategory
    /\ budget.currency \in Currency

\* The handler from the answer of find_one on: the update or the insert, the
\* expense query and the response.
create_budget_write(username, budget, existing_budget) ==
    LET current_user == get_current_user(username)
        inserted ==
            Budget([id |-> Len(budgets) + 1, user_id |-> current_user.id,
                    category |-> budget.category,
                    budget_amount |-> budget.budget_amount,
                    month |-> budget.month])
        budget_obj ==
            IF existing_budget # <<>>
            THEN [Head(existing_budget) EXCEPT
                     !.budget_amount = budget.budget_amount]
            ELSE inserted
        start_date == strptime(budget.month)
        end_date == MonthEnd(start_date)
        spent_amount ==
            SumAmounts(SpentQuery(transactions, current_user.id,
                                  budget.category, start_date, end_date))
        remaining_amount == budget.budget_amount - spent_amount
        percentage_used == Percentage(spent_amount, budget.budget_amount)
        response ==
            BudgetResponse([id |-> budget_obj.id,
                            category |-> budget_obj.category,
                            budget_amount |-> budget_obj.budget_amount,
                            month |-> budget_obj.month,
                            spent_amount |-> spent_amount,
                            remaining_amount |-> remaining_amount,
                            percentage_used |-> percentage_used])
        answer ==
            IF start_date = ValueError \/ IsError(response)
            THEN Response("create_budget", 500, <<>>)
            ELSE Response("create_budget", 200, response)
    IN  IF ~IsBudgetCreate(budget)
        THEN /\ budgets' = budgets
             /\ resp' = [Response("create_budget", 422, <<>>)
                         EXCEPT !.req = <<username, budget>>]
        ELSE /\ IF existing_budget # <<>>
                THEN budgets' = UpdateOneAmount(budgets, Head(existing_budget).id,
                                                budget.budget_amount)
                ELSE /\ Len(budgets) < MaxBudgets
                     /\ budgets' = Append(budgets, inserted)
             /\ resp' = [answer EXCEPT !.req = <<username, budget>>]

create_budget(username, budget) ==
    /\ Authenticated(username)
    /\ create_budget_write(username, budget,
                           ExistingBudget(budgets, get_current_user(username).id,
                                          budget))
    /\ UNCHANGED <<users, transactions, uuid, clock, inflight, overlapped>>

(***************************************************************************)
(* Handlers in flight.  A handler is a coroutine: each await of a store    *)
(* call is a point at which other requests run.  inflight holds the        *)
(* handlers that have made their first store call and not yet returned,    *)
(* each with what it has read; overlapped records that some handler read   *)
(* what a handler in flight was still going to write.                      *)
(***************************************************************************)
MaxInflight == 2

RemoveAt(s, i) == SubSeq(s, 1, i - 1) \o SubSeq(s, i + 1, Len(s))

\* POST /budgets up to the answer of find_one.
create_budget_find_one(username, budget) ==
    /\ Authenticated(username)
    /\ IF ~IsBudgetCreate(budget)
       THEN /\ resp' = [Response("create_budget", 422, <<>>)
                        EXCEPT !.req = <<username, budget>>]
            /\ UNCHANGED <<inflight, overlapped>>
       ELSE /\ Len(inflight) < MaxInflight
            /\ inflight' = Append(inflight,
                   [op |-> "create_budget", username |-> username,
                    budget |-> budget,
                    existing_budget |->
                        ExistingBudget(budgets, get_current_user(username).id,
                                       budget)])
            /\ overlapped' =
                   (overlapped
                       \/ \E i \in DOMAIN inflight :
                              /\ inflight[i].op = "create_budget"
                              /\ inflight[i].username = username
                              /\ inflight[i].budget.category = budget.category
                              /\ inflight[i].budget.month = budget.month)
            /\ resp' = resp
    /\ UNCHANGED <<users, transactions, budgets, uuid, clock>>

\* POST /budgets from the answer of find_one on, for the i-th handler in flight.
create_budget_resume(i) ==
    /\ i \in DOMAIN inflight
    /\ inflight[i].op = "create_budget"
    /\ create_budget_write(inflight[i].username, inflight[i].budget,
                           inflight[i].existing_budget)
    /\ inflight' = RemoveAt(inflight, i)
    /\ UNCHANGED <<users, transactions, uuid, clock, overlapped>>

(***************************************************************************)
(* GET /budgets: the status and the body of the answer.                    *)
(***************************************************************************)
get_budgets_entry(txs, user_id, budget) ==
    LET start_date == strptime(budget.month)
        end_date == MonthEnd(start_date)
        spent_amount ==
            SumAmounts(SpentQuery(txs, user_id, budget.category, start_date,
                                  end_date))
        remaining_amount == budget.budget_amount - spent_amount
        percentage_used == Percentage(spent_amount, budget.budget_amount)
    IN  IF start_date = ValueError THEN ValidationError
        ELSE BudgetResponse([id |-> budget.id, category |-> budget.category,
                             budget_amount |-> budget.budget_amount,
                             month |-> budget.month,
                             spent_amount |-> spent_amount,
                             remaining_amount |-> remaining_amount,
                             percentage_used |-> percentage_used])

get_budgets(coll, txs, user_id, month) ==
    LET found == Take(SelectSeq(coll, LAMBDA b : /\ b.user_id = user_id
                                                 /\ month # None => b.month = month),
                      BudgetListLimit)
        budget_responses ==
            [i \in DOMAIN found |-> get_budgets_entry(txs, user_id, found[i])]
    IN  IF \E i \in DOMAIN found : IsError(budget_responses[i])
        THEN [status |-> 500, body |-> <<>>]
        ELSE [status |-> 200, body |-> budget_responses]

(***************************************************************************)
(* GET /analytics/budget-progress: the status and the body of the answer.  *)
(***************************************************************************)
BudgetStatus(percentage_used) ==
    IF percentage_used.num > 100 * percentage_used.den THEN "over_budget"
    ELSE IF percentage_used.num < 80 * percentage_used.den THEN "on_track"
    ELSE "warning"

budget_progress_entry(txs, user_id, month, budget) ==
    LET start_date == strptime(month)
        end_date == MonthEnd(start_date)
        spent_amount ==
            SumAmounts(SpentQueryCurrency(txs, user_id, budget.category,
                                          budget.currency, start_date, end_date))
        percentage_used == Percentage(spent_amount, budget.budget_amount)
    IN  IF start_date = ValueError THEN ValidationError
        ELSE [category |-> budget.category,
              budget_amount |-> budget.budget_amount,
              spent_amount |-> spent_amount,
              remaining_amount |-> budget.budget_amount - spent_amount,
              percentage_used |-> Round2(percentage_used),
              currency |-> budget.currency,
              status |-> BudgetStatus(percentage_used)]

get_budget_progress(coll, txs, user_id, month_param) ==
    LET month == IF month_param # None THEN month_param
                 ELSE <<utcnow[1], utcnow[2]>>
        found == Take(SelectSeq(coll, LAMBDA b : /\ b.user_id = user_id
                                                 /\ b.month = month),
                      BudgetListLimit)
        progress ==
            [i \in DOMAIN found |-> budget_progress_entry(txs, user_id, month, found[i])]
    IN  IF \E i \in DOMAIN found : IsError(progress[i])
        THEN [status |-> 500, body |-> <<>>]
        ELSE [status |-> 200, body |-> progress]

(***************************************************************************)
(* The passage of time between requests.                                   *)
(***************************************************************************)
Tick ==
    /\ clock < MaxClock
    /\ clock' = clock + 1
    /\ UNCHANGED <<users, transactions, budgets, uuid, resp, inflight, overlapped>>

(***************************************************************************)
(* The requests the clients send.                                          *)
(***************************************************************************)
TransactionCreate(type, category, amount, currency, description, date, tags, is_recurring, recurrence_type) ==
    [type |-> type, category |-> category, amount |-> amount,
     currency |-> currency, description |-> description, date |-> date,
     tags |-> tags, is_recurring |-> is_recurring,
     recurrence_type |-> recurrence_type]

Pay == <<"P", "a", "y">>
Rent == <<"R", "e", "n", "t">>

TransactionRequests ==
    { TransactionCreate(INCOME, "salary", 500, "INR", Pay, None, <<>>, FALSE, "none"),
      TransactionCreate(EXPENSE, "food", 200, "USD", Rent, <<2024, 1, 29>>, <<"home">>, TRUE, "daily") }

UpdateRequests ==
    { TransactionCreate(EXPENSE, "housing", 900, "INR", Pay, None, <<"work">>, FALSE, "weekly") }

SearchFilters(query, category, type, start_date, end_date, min_amount, max_amount, tags) ==
    [query |-> query, category |-> category, type |-> type,
     start_date |-> start_date, end_date |-> end_date,
     min_amount |-> min_amount, max_amount |-> max_amount, tags |-> tags]

SearchRequests ==
    { SearchFilters(<<>>, "", "", None, None, None, None, <<>>),
      SearchFilters(<<"r", "E">>, "food", EXPENSE, None, None, None, <<200>>, <<"home">>),
      SearchFilters(<<>>, "", "", <<2024, 1, 30>>, <<2024, 1, 31>>, <<0>>, None, <<>>) }

DaysRequests == {1, DefaultDays}

BudgetCreate(category, budget_amount, currency, month) ==
    [category |-> category, budget_amount |-> budget_amount,
     currency |-> currency, month |-> month]

\* Budgets for 2024-01 in both currencies, and one whose month is malformed.
BudgetRequests ==
    { BudgetCreate("food", 25000, "INR", <<2024, 1>>),
      BudgetCreate("food", 0, "INR", <<2024, 1>>),
      BudgetCreate("food", 3, "USD", <<2024, 1>>),
      BudgetCreate("food", 3, "INR", <<2024, 13>>) }

\* Expenses and an income around the budget month 2024-01.
BudgetTransactionRequests ==
    { TransactionCreate(EXPENSE, "food", 19999, "INR", Pay, None, <<>>, FALSE, "none"),
      TransactionCreate(EXPENSE, "food", 25001, "USD", Pay, None, <<>>, FALSE, "none"),
      TransactionCreate(EXPENSE, "food", 1, "INR", Pay, <<2024, 1, 1>>, <<>>, FALSE, "none"),
      TransactionCreate(EXPENSE, "food", 19999, "INR", Pay, <<2024, 2, 1>>, <<>>, FALSE, "none"),
      TransactionCreate(INCOME, "food", 1, "INR", Pay, None, <<>>, FALSE, "none") }

MonthRequests == {None, <<2024, 1>>, <<2024, 13>>}

Init ==
    /\ users = <<>>
    /\ transactions = <<>>
    /\ budgets = <<>>
    /\ uuid = 1
    /\ clock = 0
    /\ resp = NoResp
    /\ inflight = <<>>
    /\ overlapped = FALSE

Next ==
    \/ \E user \in UserCreate : register(user)
    \/ \E username \in Usernames, t \in TransactionRequests :
           create_transaction(username, t)
    \/ \E username \in Usernames, id \in 1..uuid :
           delete_transaction(username, id)
    \/ \E username \in Usernames, id \in 1..uuid, t \in UpdateRequests :
           update_transaction(username, id, t)
    \/ process_recurring_transactions

Spec == Init /\ [][Next]_vars

\* Recurring transactions: both users registered, every combination of
\* is_recurring and recurrence_type that matters, and time passing between the
\* requests.
RecurringRequests ==
    { TransactionCreate(EXPENSE, "food", 200, "USD", Rent, Epoch, <<"home">>, TRUE, "daily"),
      TransactionCreate(EXPENSE, "housing", 300, "INR", Rent, <<2023, 12, 30>>, <<>>, TRUE, "monthly"),
      TransactionCreate(INCOME, "salary", 500, "INR", Pay, <<2024, 1, 15>>, <<>>, FALSE, "weekly"),
      TransactionCreate(INCOME, "salary", 500, "INR", Pay, <<2024, 1, 15>>, <<>>, TRUE, "none") }

\* An update that carries the fields of the salary requests and other
\* recurrence fields than any stored transaction has.
RecurringUpdateRequests ==
    { TransactionCreate(INCOME, "salary", 500, "USD", Pay, <<2024, 1, 15>>, <<"work">>, TRUE, "yearly") }

Registered ==
    << [id |-> 1, email |-> "a@x.io", username |-> "alice"],
       [id |-> 2, email |-> "b@x.io", username |-> "bob"] >>

InitRegistered ==
    /\ users = Registered
    /\ transactions = <<>>
    /\ budgets = <<>>
    /\ uuid = 1
    /\ clock = 0
    /\ resp = NoResp
    /\ inflight = <<>>
    /\ overlapped = FALSE

NextRecurring ==
    \/ \E username \in Usernames, t \in RecurringRequests :
           create_transaction(username, t)
    \/ \E username \in Usernames, id \in 1..uuid :
           delete_transaction(username, id)
    \/ \E username \in Usernames, id \in 1..uuid, t \in RecurringUpdateRequests :
           update_transaction(username, id, t)
    \/ process_recurring_transactions
    \/ Tick

SpecRecurring == InitRegistered /\ [][NextRecurring]_vars

\* The recurrence calculator on its own: every day of January, February and
\* December of a common and of a leap year, under every recurrence type.
CalendarDates ==
    { d \in {2023, 2024} \X {1, 2, 12} \X (1..31) : ValidDate(d) }

InitCalendar ==
    /\ users = <<>>
    /\ transactions = <<>>
    /\ budgets = <<>>
    /\ uuid = 1
    /\ clock = 0
    /\ inflight = <<>>
    /\ overlapped = FALSE
    /\ \E date \in CalendarDates, recurrence_type \in RecurrenceType :
           resp = [NoResp EXCEPT !.req = <<date, recurrence_type>>]

\* One call: the value returned, or the ValueError raised, for the arguments.
call_calculate_next_occurrence ==
    /\ resp.op = "none"
    /\ LET returned == calculate_next_occurrence(resp.req[1], resp.req[2])
       IN  resp' = [op |-> "calculate_next_occurrence",
                    status |-> IF returned = ValueError THEN 500 ELSE 200,
                    body |-> returned, req |-> resp.req]
    /\ UNCHANGED <<users, transactions, budgets, uuid, clock, inflight, overlapped>>

SpecCalendar == InitCalendar /\ [][call_calculate_next_occurrence]_vars

\* The read handlers on stores drawn from what the write handlers can build:
\* a ledger of one transaction a month going back from December 2023, then any
\* selection of recent transactions of both users around the day of the
\* request.
MaxMonths == 13

LedgerEntry(k) ==
    [user_id |-> 1, type |-> IF k % 2 = 1 THEN INCOME ELSE EXPENSE,
     category |-> IF k % 2 = 1 THEN "salary" ELSE "housing",
     amount |-> 100 * k, currency |-> "INR", description |-> Pay,
     date |-> <<2023 - ((k - 1) \div 12), 12 - ((k - 1) % 12), 15>>,
     tags |-> <<>>, is_recurring |-> FALSE, recurrence_type |-> "none"]

Ledger(n) == [k \in 1..n |-> LedgerEntry(k)]

Recent(user_id, type, category, amount, currency, date) ==
    [user_id |-> user_id, type |-> type, category |-> category,
     amount |-> amount, currency |-> currency, description |-> Rent,
     date |-> date, tags |-> <<>>, is_recurring |-> FALSE,
     recurrence_type |-> "none"]

RecentEntries ==
    << Recent(1, INCOME, "salary", 500, "INR", <<2024, 1, 30>>),
       Recent(1, EXPENSE, "food", 900, "INR", <<2024, 1, 30>>),
       Recent(1, EXPENSE, "other_expense", 2, "USD", <<2024, 1, 29>>),
       Recent(1, EXPENSE, "housing", 300, "INR", <<2024, 2, 1>>),
       Recent(1, INCOME, "freelance", 0, "USD", <<2024, 1, 28>>),
       Recent(2, EXPENSE, "food", 700, "INR", <<2024, 1, 30>>) >>

RECURSIVE Pick(_, _)
Pick(s, chosen) ==
    IF s = <<>> THEN <<>>
    ELSE LET front == Pick(SubSeq(s, 1, Len(s) - 1), chosen)
         IN  IF Len(s) \in chosen THEN Append(front, s[Len(s)]) ELSE front

\* The documents insert_one stores for the entries, with ids in order.
Stored(entries) ==
    [i \in DOMAIN entries |->
        Transaction([id |-> i] @@ entries[i])]

Stores ==
    { Stored(Ledger(n) \o Pick(RecentEntries, chosen)) :
        n \in 0..MaxMonths, chosen \in SUBSET DOMAIN RecentEntries }

InitAnalytics ==
    /\ users = Registered
    /\ transactions \in Stores
    /\ budgets = <<>>
    /\ uuid = Len(transactions) + 1
    /\ clock = 0
    /\ resp = NoResp
    /\ inflight = <<>>
    /\ overlapped = FALSE

PeriodRequests == {"daily", "weekly", "monthly", "bogus"}

get_monthly_summary(username) ==
    /\ Authenticated(username)
    /\ resp' = [Response("get_monthly_summary", 200,
                    get_monthly_summary_result(transactions,
                                               get_current_user(username).id))
                 EXCEPT !.req = <<username>>]
    /\ UNCHANGED <<users, transactions, budgets, uuid, clock, inflight, overlapped>>

get_daily_trends(username, days) ==
    /\ Authenticated(username)
    /\ resp' = [Response("get_daily_trends", 200,
                    get_daily_trends_result(transactions,
                                            get_current_user(username).id, days))
                 EXCEPT !.req = <<username, days>>]
    /\ UNCHANGED <<users, transactions, budgets, uuid, clock, inflight, overlapped>>

get_financial_insights(username, days) ==
    /\ Authenticated(username)
    /\ LET answer == get_financial_insights_result(transactions,
                         get_current_user(username).id, days)
       IN  resp' = [Response("get_financial_insights", answer.status, answer.body)
                    EXCEPT !.req = <<username, days>>]
    /\ UNCHANGED <<users, transactions, budgets, uuid, clock, inflight, overlapped>>

get_category_breakdown(username) ==
    /\ Authenticated(username)
    /\ resp' = [Response("get_category_breakdown", 200,
                    get_category_breakdown_result(transactions,
                                                  get_current_user(username).id))
                 EXCEPT !.req = <<username>>]
    /\ UNCHANGED <<users, transactions, budgets, uuid, clock, inflight, overlapped>>

get_spending_trends(username, period, days) ==
    /\ Authenticated(username)
    /\ resp' = [Response("get_spending_trends", 200,
                    get_spending_trends_result(transactions,
                                               get_current_user(username).id,
                                               period, days))
                 EXCEPT !.req = <<username, period, days>>]
    /\ UNCHANGED <<users, transactions, budgets, uuid, clock, inflight, overlapped>>

NextAnalytics ==
    \/ \E username \in Usernames : get_monthly_summary(username)
    \/ \E username \in Usernames, days \in DaysRequests :
           get_daily_trends(username, days)
    \/ \E username \in Usernames, days \in DaysRequests :
           get_financial_insights(username, days)
    \/ \E username \in Usernames : get_category_breakdown(username)
    \/ \E username \in Usernames, period \in PeriodRequests, days \in DaysRequests :
           get_spending_trends(username, period, days)
    \/ Tick

SpecAnalytics == InitAnalytics /\ [][NextAnalytics]_vars

\* The budget handlers with the transactions they sum.
NextBudget ==
    \/ \E user \in UserCreate : register(user)
    \/ \E username \in Usernames, t \in BudgetTransactionRequests :
           create_transaction(username, t)
    \/ \E username \in Usernames, b \in BudgetRequests :
           create_budget(username, b)

SpecBudget == Init /\ [][NextBudget]_vars

(***************************************************************************)
(***************************************************************************)
(***************************************************************************)
(* POST /transactions/search over stores of the transactions below.        *)
(***************************************************************************)
Searchable(user_id, type, category, amount, currency, description, date, tags) ==
    [user_id |-> user_id, type |-> type, category |-> category,
     amount |-> amount, currency |-> currency, description |-> description,
     date |-> date, tags |-> tags, is_recurring |-> FALSE,
     recurrence_type |-> "none"]

SearchEntries ==
    << Searchable(1, EXPENSE, "food", 200, "INR", Rent, <<2024, 1, 30>>, <<"home">>),
       Searchable(1, EXPENSE, "food", 0, "INR", Pay, <<2024, 1, 29>>, <<>>),
       Searchable(1, INCOME, "salary", 500, "USD", Pay, <<2024, 1, 31>>, <<"work">>),
       Searchable(1, EXPENSE, "housing", 300, "INR", Rent, <<2024, 2, 1>>,
                  <<"home", "work">>),
       Searchable(2, EXPENSE, "food", 200, "INR", Rent, <<2024, 1, 30>>, <<"home">>) >>

SearchStores ==
    { Stored(Pick(SearchEntries, chosen)) : chosen \in SUBSET DOMAIN SearchEntries }

\* No filter; every kind of filter at once; a date range; each amount bound
\* alone, with a positive and with a zero value; both bounds; two tags.
SearchFilterRequests ==
    { SearchFilters(<<>>, "", "", None, None, None, None, <<>>),
      SearchFilters(<<"r", "E">>, "food", EXPENSE, <<2024, 1, 29>>, <<2024, 1, 30>>,
                    <<1>>, <<200>>, <<"home">>),
      SearchFilters(<<>>, "", "", <<2024, 1, 30>>, <<2024, 1, 31>>, None, None, <<>>),
      SearchFilters(<<>>, "", "", None, None, <<300>>, None, <<>>),
      SearchFilters(<<>>, "", "", None, None, None, <<200>>, <<>>),
      SearchFilters(<<>>, "", "", None, None, <<0>>, None, <<>>),
      SearchFilters(<<>>, "", "", None, None, None, <<0>>, <<>>),
      SearchFilters(<<>>, "", "", None, None, <<200>>, <<300>>, <<>>),
      SearchFilters(<<"E", "n">>, "", EXPENSE, None, None, None, None,
                    <<"work", "travel">>) }

InitSearch ==
    /\ users = Registered
    /\ transactions \in SearchStores
    /\ budgets = <<>>
    /\ uuid = Len(transactions) + 1
    /\ clock = 0
    /\ resp = NoResp
    /\ inflight = <<>>
    /\ overlapped = FALSE

search_transactions(username, filters) ==
    /\ Authenticated(username)
    /\ resp' = [Response("search_transactions", 200,
                    search_transactions_result(transactions,
                                               get_current_user(username).id,
                                               filters))
                 EXCEPT !.req = <<username, filters>>]
    /\ UNCHANGED <<users, transactions, budgets, uuid, clock, inflight, overlapped>>

NextSearch ==
    \E username \in Usernames, filters \in SearchFilterRequests :
        search_transactions(username, filters)

SpecSearch == InitSearch /\ [][NextSearch]_vars

(***************************************************************************)
(* The reads that divide: financial insights (by days and by the total     *)
(* income), the category breakdown (by a bucket total) and the budget      *)
(* progress (by the budget amount), over stores in which each denominator  *)
(* can be zero.                                                            *)
(***************************************************************************)
BudgetEntries ==
    << [user_id |-> 1, category |-> "food", budget_amount |-> 0,
        month |-> <<2024, 1>>],
       [user_id |-> 1, category |-> "housing", budget_amount |-> 25000,
        month |-> <<2024, 1>>] >>

\* The documents create_budget stores for the entries, with ids in order.
StoredBudgets(entries) ==
    [i \in DOMAIN entries |-> Budget([id |-> i] @@ entries[i])]

BudgetStores ==
    { StoredBudgets(Pick(BudgetEntries, chosen)) :
        chosen \in SUBSET DOMAIN BudgetEntries }

DerivedDaysRequests == {0, 1}

InitDerived ==
    /\ users = Registered
    /\ transactions \in { Stored(Pick(RecentEntries, chosen)) :
                            chosen \in SUBSET DOMAIN RecentEntries }
    /\ budgets \in BudgetStores
    /\ uuid = Len(transactions) + 1
    /\ clock = 0
    /\ resp = NoResp
    /\ inflight = <<>>
    /\ overlapped = FALSE

get_budget_progress_request(username, month) ==
    /\ Authenticated(username)
    /\ LET answer == get_budget_progress(budgets, transactions,
                                         get_current_user(username).id, month)
       IN  resp' = [Response("get_budget_progress", answer.status, answer.body)
                    EXCEPT !.req = <<username, month>>]
    /\ UNCHANGED <<users, transactions, budgets, uuid, clock, inflight, overlapped>>

NextDerived ==
    \/ \E username \in Usernames, days \in DerivedDaysRequests :
           get_financial_insights(username, days)
    \/ \E username \in Usernames : get_category_breakdown(username)
    \/ \E username \in Usernames, month \in {None, <<2024, 1>>} :
           get_budget_progress_request(username, month)

SpecDerived == InitDerived /\ [][NextDerived]_vars

(***************************************************************************)
(* The two create handlers called with well-formed bodies and with bodies  *)
(* that are malformed or outside the enums.                                *)
(***************************************************************************)
ValidationTransactionRequests ==
    { TransactionCreate(INCOME, "salary", 500, "INR", Pay, None, <<>>, FALSE, "none"),
      TransactionCreate(EXPENSE, "food", 200, "USD", Rent, <<2024, 1, 29>>, <<>>, TRUE,
                        "daily"),
      TransactionCreate(EXPENSE, "gifts", 200, "INR", Pay, None, <<>>, FALSE, "none"),
      TransactionCreate(EXPENSE, "food", 200, "INR", Pay, None, <<>>, TRUE, "hourly") }

ValidationBudgetRequests ==
    { BudgetCreate("food", 25000, "INR", <<2024, 1>>),
      BudgetCreate("housing", 100, "INR", <<2024, 2>>),
      BudgetCreate("food", 3, "INR", <<2024, 13>>),
      BudgetCreate("gifts", 3, "INR", <<2024, 1>>) }

NextValidation ==
    \/ \E username \in Usernames, t \in ValidationTransactionRequests :
           create_transaction(username, t)
    \/ \E username \in Usernames, b \in ValidationBudgetRequests :
           create_budget(username, b)

SpecValidation == InitRegistered /\ [][NextValidation]_vars

(***************************************************************************)
(* The sweep called again and again at a fixed now on a store that holds   *)
(* one recurring transaction: any user, recurrence type and next           *)
(* occurrence that one run can bring past now, or that the calculator      *)
(* cannot advance.                                                         *)
(***************************************************************************)
SweepOriginal(user_id, recurrence_type, next_occurrence) ==
    Transaction([id |-> 1, user_id |-> user_id, type |-> EXPENSE,
                 category |-> "housing", amount |-> 300, currency |-> "INR",
                 description |-> Rent, date |-> <<2022, 12, 31>>, tags |-> <<>>,
                 is_recurring |-> TRUE, recurrence_type |-> recurrence_type,
                 next_occurrence |-> next_occurrence])

OneRunSuffices(next_occurrence, recurrence_type) ==
    LET after == calculate_next_occurrence(next_occurrence, recurrence_type)
    IN  \/ DateLT(Epoch, next_occurrence)
        \/ after = ValueError
        \/ DateLT(Epoch, after)

SweepStores ==
    { <<SweepOriginal(user_id, pointer[1], pointer[2])>> :
        user_id \in {1, 2},
        pointer \in { p \in (RecurrenceType \ {"none"}) \X CalendarDates :
                          OneRunSuffices(p[2], p[1]) } }

InitSweep ==
    /\ users = Registered
    /\ transactions \in SweepStores
    /\ budgets = <<>>
    /\ uuid = 2
    /\ clock = 0
    /\ resp = NoResp
    /\ inflight = <<>>
    /\ overlapped = FALSE

\* The endpoint is called again whenever a call has returned.
SpecSweep ==
    /\ InitSweep
    /\ [][process_recurring_transactions]_vars
    /\ WF_vars(process_recurring_transactions)

(***************************************************************************)
(* POST /budgets with its handlers interleaved at their awaits.            *)
(***************************************************************************)
\* Two requests for one (category, month) of different amounts and currencies,
\* and one for another category and month.
RaceBudgetRequests ==
    { BudgetCreate("food", 25000, "INR", <<2024, 1>>),
      BudgetCreate("food", 3, "USD", <<2024, 1>>),
      BudgetCreate("housing", 100, "INR", <<2024, 2>>) }

NextBudgetRace ==
    \/ \E username \in Usernames, b \in RaceBudgetRequests :
           create_budget_find_one(username, b)
    \/ \E i \in 1..MaxInflight : create_budget_resume(i)

SpecBudgetRace == InitRegistered /\ [][NextBudgetRace]_vars

(***************************************************************************)
(* POST /transactions/process-recurring with its handlers interleaved at   *)
(* their awaits: the find of the due transactions, each update_one of the  *)
(* loop, and insert_many.                                                  *)
(***************************************************************************)
\* Up to the answer of find(...).to_list(1000).
process_recurring_find ==
    /\ Len(inflight) < MaxInflight
    /\ LET current_date == utcnow
           recurring_transactions ==
               Take(DueTransactions(transactions, current_date), ToListLimit)
       IN  /\ inflight' = Append(inflight,
                  [op |-> "process_recurring",
                   recurring_transactions |-> recurring_transactions,
                   new_transactions |-> <<>>])
           /\ overlapped' =
                  (overlapped
                      \/ \E i \in DOMAIN inflight :
                             /\ inflight[i].op = "process_recurring"
                             /\ \E k \in DOMAIN inflight[i].recurring_transactions,
                                   m \in DOMAIN recurring_transactions :
                                    inflight[i].recurring_transactions[k].id
                                        = recurring_transactions[m].id)
    /\ UNCHANGED <<users, transactions, budgets, uuid, clock, resp>>

\* One pass of the loop of the i-th handler in flight, up to the answer of
\* update_one; a ValueError of calculate_next_occurrence ends the handler.
process_recurring_update_one(i) ==
    /\ i \in DOMAIN inflight
    /\ inflight[i].op = "process_recurring"
    /\ inflight[i].recurring_transactions # <<>>
    /\ LET recurring_transaction == Head(inflight[i].recurring_transactions)
           collected == Append(inflight[i].new_transactions,
                               new_transaction(recurring_transaction, uuid))
           next_occurrence ==
               calculate_next_occurrence(recurring_transaction.next_occurrence,
                                         recurring_transaction.recurrence_type)
       IN  IF next_occurrence = ValueError
           THEN /\ inflight' = RemoveAt(inflight, i)
                /\ resp' = Response("process_recurring", 500, <<>>)
                /\ UNCHANGED <<transactions, uuid>>
           ELSE /\ transactions' = UpdateOneNext(transactions,
                                                 recurring_transaction.id,
                                                 next_occurrence)
                /\ inflight' =
                       [inflight EXCEPT ![i] =
                           [@ EXCEPT !.recurring_transactions = Tail(@),
                                     !.new_transactions = collected]]
                /\ uuid' = uuid + 1
                /\ resp' = resp
    /\ UNCHANGED <<users, budgets, clock, overlapped>>

\* The end of the i-th handler in flight: insert_many and the answer.
process_recurring_insert_many(i) ==
    /\ i \in DOMAIN inflight
    /\ inflight[i].op = "process_recurring"
    /\ inflight[i].recurring_transactions = <<>>
    /\ transactions' = transactions \o inflight[i].new_transactions
    /\ resp' = Response("process_recurring", 200, Len(inflight[i].new_transactions))
    /\ inflight' = RemoveAt(inflight, i)
    /\ UNCHANGED <<users, budgets, uuid, clock, overlapped>>

\* Recurring transactions of different contents: one overdue by two intervals
\* and two by one.
RaceOriginal(user_id, category, recurrence_type, next_occurrence) ==
    [user_id |-> user_id, type |-> EXPENSE, category |-> category,
     amount |-> 300, currency |-> "INR", description |-> Rent,
     date |-> <<2024, 1, 23>>, tags |-> <<>>, is_recurring |-> TRUE,
     recurrence_type |-> recurrence_type, next_occurrence |-> next_occurrence]

RaceEntries ==
    << RaceOriginal(1, "food", "daily", <<2024, 1, 29>>),
       RaceOriginal(1, "housing", "weekly", <<2024, 1, 30>>),
       RaceOriginal(2, "food", "daily", <<2024, 1, 30>>) >>

InitSweepRace ==
    /\ users = Registered
    /\ transactions \in { Stored(Pick(RaceEntries, chosen)) :
                            chosen \in SUBSET DOMAIN RaceEntries }
    /\ budgets = <<>>
    /\ uuid = Len(transactions) + 1
    /\ clock = 0
    /\ resp = NoResp
    /\ inflight = <<>>
    /\ overlapped = FALSE

NextSweepRace ==
    \/ process_recurring_find
    \/ \E i \in 1..MaxInflight : process_recurring_update_one(i)
    \/ \E i \in 1..MaxInflight : process_recurring_insert_many(i)

SpecSweepRace == InitSweepRace /\ [][NextSweepRace]_vars

(* POST /currency/convert, called on its own: an amount in hundredths is   *)
(* converted, and the converted amount is then converted back.             *)
(***************************************************************************)
MaxAmount == 10000

\* Whole units of the currency, in hundredths.
Amounts == { a \in 0..MaxAmount : a % 100 = 0 }

convert_currency_endpoint_result(amount, from_currency, to_currency) ==
    [original_amount |-> amount,
     from_currency |-> from_currency,
     to_currency |-> to_currency,
     converted_amount |-> convert_currency(amount, from_currency, to_currency),
     rate |-> CURRENCY_RATES(from_currency, to_currency)]

InitConvert ==
    /\ users = <<>>
    /\ transactions = <<>>
    /\ budgets = <<>>
    /\ uuid = 1
    /\ clock = 0
    /\ inflight = <<>>
    /\ overlapped = FALSE
    /\ \E amount \in Amounts, from_currency \in Currency, to_currency \in Currency :
           resp = [NoResp EXCEPT !.req = <<amount, from_currency, to_currency>>]

\* The first call: the request's amount from its first into its second currency.
convert_currency_endpoint ==
    /\ resp.op = "none"
    /\ resp' = [op |-> "convert_currency", status |-> 200,
                body |-> convert_currency_endpoint_result(resp.req[1], resp.req[2],
                                                          resp.req[3]),
                req |-> resp.req]
    /\ UNCHANGED <<users, transactions, budgets, uuid, clock, inflight, overlapped>>

\* The second call: the amount the first call returned, converted back.
convert_currency_endpoint_back ==
    /\ resp.op = "convert_currency"
    /\ resp' = [op |-> "convert_currency_back", status |-> 200,
                body |-> convert_currency_endpoint_result(resp.body.converted_amount,
                                                          resp.body.to_currency,
                                                          resp.body.from_currency),
                req |-> resp.req]
    /\ UNCHANGED <<users, transactions, budgets, uuid, clock, inflight, overlapped>>

NextConvert ==
    \/ convert_currency_endpoint
    \/ convert_currency_endpoint_back

SpecConvert == InitConvert /\ [][NextConvert]_vars

(* What the budget handlers are expected to report.                        *)
(***************************************************************************)
ValidMonth(month) == month[2] \in 1..12

\* The caller's stored budgets for a (category, month, currency) key.
BudgetsForKey(coll, user_id, budget) ==
    SelectSeq(coll, LAMBDA b : /\ b.user_id = user_id
                               /\ b.category = budget.category
                               /\ b.month = budget.month
                               /\ b.currency = budget.currency)

\* The sum a budget's spent_amount stands for: the owner's expenses in the
\* budget's category and currency dated within the budget's month.
ExpectedSpent(b) ==
    LET first == <<b.month[1], b.month[2], 1>>
        next == IF b.month[2] = 12 THEN <<b.month[1] + 1, 1, 1>>
                ELSE <<b.month[1], b.month[2] + 1, 1>>
    IN  SumAmounts(SelectSeq(transactions,
            LAMBDA t : /\ t.user_id = b.user_id
                       /\ t.type = EXPENSE
                       /\ t.category = b.category
                       /\ t.currency = b.currency
                       /\ DateLE(first, t.date)
                       /\ DateLT(t.date, next)))

\* The caller's stored budgets a listing for month (None: every month) covers.
ListedBudgets(user_id, month) ==
    SelectSeq(budgets, LAMBDA b : /\ b.user_id = user_id
                                  /\ month # None => b.month = month)

MonthOrNow(month) == IF month # None THEN month ELSE <<utcnow[1], utcnow[2]>>

\* C1: two create_budget calls in a row by one user for one (category, month,
\* currency) both succeed and return the same id, and leave exactly one stored
\* budget for that key, holding the amount of the second call.
C1_RepeatedCreateKeepsOneBudget ==
    [][\A username \in Usernames, b \in BudgetRequests :
        ( /\ create_budget(username, b)
          /\ ValidMonth(b.month)
          /\ resp.op = "create_budget"
          /\ resp.req[1] = username
          /\ resp.req[2].category = b.category
          /\ resp.req[2].month = b.month
          /\ resp.req[2].currency = b.currency )
        => LET stored == BudgetsForKey(budgets', get_current_user(username).id, b)
           IN  /\ resp.status = 200
               /\ resp'.status = 200
               /\ resp'.body.id = resp.body.id
               /\ Len(stored) = 1
               /\ stored[1].budget_amount = b.budget_amount
               /\ stored[1].id = resp'.body.id]_vars

\* C2: a create_budget call with a valid month answers 200 with the requested
\* currency and amount, and the store then holds a budget of the caller with
\* the requested category, month, currency and amount.
C2_CreateBudgetSucceeds ==
    (resp.op = "create_budget" /\ ValidMonth(resp.req[2].month)) =>
        LET b == resp.req[2]
            stored == BudgetsForKey(budgets, get_current_user(resp.req[1]).id, b)
        IN  /\ resp.status = 200
            /\ resp.body.currency = b.currency
            /\ resp.body.budget_amount = b.budget_amount
            /\ stored # <<>>
            /\ stored[1].budget_amount = b.budget_amount

\* C3: a create_budget call for a (user, category, month) that has a budget in
\* another currency only adds a record with a new id and changes no stored
\* budget.
C3_OtherCurrencyInsertsSeparateBudget ==
    [][\A username \in Usernames, b \in BudgetRequests :
        ( /\ create_budget(username, b)
          /\ ExistingBudget(budgets, get_current_user(username).id, b) # <<>>
          /\ BudgetsForKey(budgets, get_current_user(username).id, b) = <<>> )
        => /\ Len(budgets') = Len(budgets) + 1
           /\ SubSeq(budgets', 1, Len(budgets)) = budgets
           /\ \A i \in DOMAIN budgets : budgets[i].id # budgets'[Len(budgets')].id
           /\ budgets'[Len(budgets')].currency = b.currency]_vars

\* C4: GET /budgets and budget_progress answer 200 with one entry per stored
\* budget of the caller for the month, whose spent_amount is the sum of the
\* caller's expenses of the budget's category and currency dated in the month.
C4_SpentAmountIsSumOfMatchingExpenses ==
    \A i \in DOMAIN users : \A month \in {m \in MonthRequests : m = None \/ ValidMonth(m)} :
        LET user_id == users[i].id
            listed == ListedBudgets(user_id, month)
            shown == ListedBudgets(user_id, MonthOrNow(month))
            list == get_budgets(budgets, transactions, user_id, month)
            progress == get_budget_progress(budgets, transactions, user_id, month)
        IN  (\A k \in DOMAIN listed : ValidMonth(listed[k].month)) =>
                /\ list.status = 200
                /\ Len(list.body) = Len(listed)
                /\ \A k \in DOMAIN listed :
                       list.body[k].spent_amount = ExpectedSpent(listed[k])
                /\ progress.status = 200
                /\ Len(progress.body) = Len(shown)
                /\ \A k \in DOMAIN shown :
                       progress.body[k].spent_amount = ExpectedSpent(shown[k])

\* remaining_amount = budget_amount - spent_amount, for a response entry.
RemainingIsDifference(e) == e.remaining_amount = e.budget_amount - e.spent_amount

\* C5: every budget reported by create_budget, GET /budgets and budget_progress
\* has remaining_amount = budget_amount - spent_amount and percentage_used =
\* spent_amount / budget_amount * 100 (0 when budget_amount is not positive).
C5_RemainingAndPercentage ==
    /\ (resp.op = "create_budget" /\ ValidMonth(resp.req[2].month)) =>
           /\ resp.status = 200
           /\ RemainingIsDifference(resp.body)
           /\ resp.body.percentage_used =
                  Percentage(resp.body.spent_amount, resp.body.budget_amount)
    /\ \A i \in DOMAIN users :
           LET user_id == users[i].id
               listed == ListedBudgets(user_id, None)
               list == get_budgets(budgets, transactions, user_id, None)
               progress == get_budget_progress(budgets, transactions, user_id, None)
           IN  (\A k \in DOMAIN listed : ValidMonth(listed[k].month)) =>
                   /\ list.status = 200
                   /\ \A k \in DOMAIN list.body :
                          /\ RemainingIsDifference(list.body[k])
                          /\ list.body[k].percentage_used =
                                 Percentage(list.body[k].spent_amount,
                                            list.body[k].budget_amount)
                   /\ progress.status = 200
                   /\ \A k \in DOMAIN progress.body :
                          LET e == progress.body[k]
                              exact == Percentage(e.spent_amount, e.budget_amount)
                          IN  /\ RemainingIsDifference(e)
                              /\ e.percentage_used * exact.den = exact.num * 100

\* C6: in every budget_progress entry the status agrees with the
\* percentage_used of that entry (in hundredths): over_budget above 100,
\* on_track below 80, warning otherwise.
C6_StatusMatchesReportedPercentage ==
    \A i \in DOMAIN users : \A month \in {None, <<2024, 1>>} :
        LET progress == get_budget_progress(budgets, transactions, users[i].id, month)
        IN  \A k \in DOMAIN progress.body :
                LET e == progress.body[k]
                IN  e.status = IF e.percentage_used > 10000 THEN "over_budget"
                               ELSE IF e.percentage_used < 8000 THEN "on_track"
                               ELSE "warning"

(***************************************************************************)
(* Ownership of transactions.                                              *)
(***************************************************************************)
\* The stored transactions whose user_id is the given user's.
OwnTransactions(user_id) ==
    SelectSeq(transactions, LAMBDA t : t.user_id = user_id)

Ids(docs) == {docs[k].id : k \in DOMAIN docs}

\* Every read of a user shows what it would show were the other users'
\* transactions not stored, and lists only ids of the user's own transactions.
IsolatedReads ==
    \A i \in DOMAIN users :
        LET user_id == users[i].id
            own == OwnTransactions(user_id)
        IN  /\ get_transactions_result(transactions, user_id)
                   = get_transactions_result(own, user_id)
            /\ Ids(get_transactions_result(transactions, user_id)) \subseteq Ids(own)
            /\ \A f \in SearchRequests :
                   /\ search_transactions_result(transactions, user_id, f)
                          = search_transactions_result(own, user_id, f)
                   /\ Ids(search_transactions_result(transactions, user_id, f))
                          \subseteq Ids(own)
            /\ get_monthly_summary_result(transactions, user_id)
                   = get_monthly_summary_result(own, user_id)
            /\ get_category_summary_result(transactions, user_id)
                   = get_category_summary_result(own, user_id)
            /\ \A days \in DaysRequests :
                   get_daily_trends_result(transactions, user_id, days)
                       = get_daily_trends_result(own, user_id, days)

\* A delete aimed at a transaction of another user answers 404 and removes
\* nothing.
ForeignDeleteRefused ==
    \A username \in Usernames, id \in 1..uuid :
        ( /\ delete_transaction(username, id)
          /\ \E t \in Range(transactions) :
                 t.id = id /\ t.user_id # get_current_user(username).id )
        => /\ resp'.status = 404
           /\ transactions' = transactions

\* C7: user isolation: a user's list, search, monthly summary, category
\* summary and daily trends depend on that user's transactions only, and a
\* delete of another user's transaction answers not-found and leaves it stored.
C7_UserIsolation == []IsolatedReads /\ [][ForeignDeleteRefused]_vars

\* A user has just been refused the delete of another user's transaction, and
\* each of the two users has a transaction that the other's list does not show.
C7_Witness ==
    /\ resp.op = "delete_transaction"
    /\ resp.status = 404
    /\ Len(users) = 2
    /\ \E t \in Range(transactions) :
           /\ t.id = resp.req[2]
           /\ t.user_id # get_current_user(resp.req[1]).id
    /\ \A i \in DOMAIN users :
           /\ get_transactions_result(transactions, users[i].id) # <<>>
           /\ Len(get_transactions_result(transactions, users[i].id))
                  < Len(transactions)

\* C8: a delete by the owner removes exactly that transaction, which the
\* owner's list no longer shows, and leaves the others as they were; a delete
\* of an id the caller does not own answers 404 and changes nothing.
C8_DeleteTransaction ==
    [][\A username \in Usernames, id \in 1..uuid :
        delete_transaction(username, id) =>
            LET user_id == get_current_user(username).id
            IN  IF \E t \in Range(transactions) : t.id = id /\ t.user_id = user_id
                THEN /\ resp'.status = 200
                     /\ transactions' = SelectSeq(transactions, LAMBDA t : t.id # id)
                     /\ Len(transactions') = Len(transactions) - 1
                     /\ id \notin Ids(get_transactions_result(transactions', user_id))
                ELSE /\ resp'.status = 404
                     /\ transactions' = transactions]_vars

\* An owner has just deleted one of two stored transactions.
C8_Witness ==
    /\ resp.op = "delete_transaction"
    /\ resp.status = 200
    /\ Len(transactions) = 1
    /\ resp.req[2] \notin Ids(transactions)

\* C9: an update of an id the caller does not own answers 404 and changes
\* nothing; an update of an owned transaction sets its type, category, amount,
\* description and date from the request and leaves its other fields and every
\* other transaction as they were.
C9_UpdateTransactionFrame ==
    [][\A username \in Usernames, id \in 1..uuid, r \in UpdateRequests :
        update_transaction(username, id, r) =>
            LET user_id == get_current_user(username).id
            IN  IF \E t \in Range(transactions) : t.id = id /\ t.user_id = user_id
                THEN /\ resp'.status = 200
                     /\ Len(transactions') = Len(transactions)
                     /\ \A k \in DOMAIN transactions :
                            LET old == transactions[k]
                                new == transactions'[k]
                            IN  IF old.id = id
                                THEN /\ new.type = r.type
                                     /\ new.category = r.category
                                     /\ new.amount = r.amount
                                     /\ new.description = r.description
                                     /\ new.date = IF r.date # None THEN r.date
                                                   ELSE utcnow
                                     /\ new.id = old.id
                                     /\ new.user_id = old.user_id
                                     /\ new.currency = old.currency
                                     /\ new.tags = old.tags
                                     /\ new.is_recurring = old.is_recurring
                                     /\ new.recurrence_type = old.recurrence_type
                                     /\ new.next_occurrence = old.next_occurrence
                                ELSE new = old
                ELSE /\ resp'.status = 404
                     /\ transactions' = transactions]_vars

\* An owner has just updated a recurring transaction with a request that names
\* another currency, other tags and no recurrence, next to a second transaction.
C9_Witness ==
    /\ resp.op = "update_transaction"
    /\ resp.status = 200
    /\ Len(transactions) = 2
    /\ \E t \in Range(transactions) :
           /\ t.id = resp.req[2]
           /\ t.description = resp.req[3].description
           /\ t.currency # resp.req[3].currency
           /\ t.tags # resp.req[3].tags
           /\ t.is_recurring /\ ~resp.req[3].is_recurring
           /\ t.recurrence_type # resp.req[3].recurrence_type
           /\ t.next_occurrence # None

\* No two stored users share an email or a username.
UniqueUsers ==
    \A i, j \in DOMAIN users :
        i # j => /\ users[i].email # users[j].email
                 /\ users[i].username # users[j].username

\* A registration that names a stored email or username answers 400 and adds
\* nothing; any other adds exactly that user and answers with a token.
RegisterStep ==
    \A user \in UserCreate :
        register(user) =>
            IF \E u \in Range(users) :
                   u.email = user.email \/ u.username = user.username
            THEN /\ resp'.status = 400
                 /\ users' = users
            ELSE /\ resp'.status = 200
                 /\ resp'.body.access_token = user.username
                 /\ Len(users') = Len(users) + 1
                 /\ SubSeq(users', 1, Len(users)) = users
                 /\ users'[Len(users')].email = user.email
                 /\ users'[Len(users')].username = user.username

\* C10: register rejects a stored email or username and adds no user, otherwise
\* adds one user and returns a token; so stored users never share either.
C10_RegisterRejectsDuplicates == []UniqueUsers /\ [][RegisterStep]_vars

\* A registration has just been refused while two users are stored.
C10_Witness ==
    /\ resp.op = "register"
    /\ resp.status = 400
    /\ Len(users) = 2

(***************************************************************************)
(* What the recurrence handlers are expected to do.                        *)
(***************************************************************************)
\* The next occurrence the recurrence rules give: the day after, seven days
\* after, the same day of the following month, the same day of the following
\* year.
ExpectedNext(date, recurrence_type) ==
    CASE recurrence_type = "none" -> None
      [] recurrence_type = "daily" -> NextDay(date)
      [] recurrence_type = "weekly" ->
            NextDay(NextDay(NextDay(NextDay(NextDay(NextDay(NextDay(date)))))))
      [] recurrence_type = "monthly" ->
            IF date[2] = 12 THEN <<date[1] + 1, 1, date[3]>>
            ELSE <<date[1], date[2] + 1, date[3]>>
      [] recurrence_type = "yearly" -> <<date[1] + 1, date[2], date[3]>>

Recurs(t) == t.is_recurring /\ t.recurrence_type # "none"

\* The recurring transactions a sweep at this moment has to handle.
Due == SelectSeq(transactions,
                 LAMBDA t : /\ t.is_recurring
                            /\ t.next_occurrence # None
                            /\ DateLE(t.next_occurrence, AddDays(Epoch, clock)))

\* The transactions a step appended to the store.
Added == SubSeq(transactions', Len(transactions) + 1, Len(transactions'))

IsAutoGenerated(t) ==
    /\ Len(t.description) > Len(AutoGenerated)
    /\ SubSeq(t.description, Len(t.description) - Len(AutoGenerated) + 1,
              Len(t.description)) = AutoGenerated

\* C11: a stored transaction has a next_occurrence exactly when it is recurring
\* with a recurrence type other than none, and the transaction a successful
\* create_transaction has just stored carries the next occurrence of its date.
C11_NextOccurrenceIffRecurring ==
    /\ \A t \in Range(transactions) :
           /\ t.next_occurrence # None <=> Recurs(t)
           /\ t.next_occurrence # None => ValidDate(t.next_occurrence)
    /\ (resp.op = "create_transaction" /\ resp.status = 200) =>
           \A t \in Range(transactions) :
               (t.id = resp.body.id /\ Recurs(t)) =>
                   t.next_occurrence = ExpectedNext(t.date, t.recurrence_type)

\* A sweep has materialized an occurrence of a recurring transaction and moved
\* its pointer on, next to a stored transaction that does not recur.
C11_Witness ==
    /\ resp.op = "process_recurring"
    /\ resp.status = 200
    /\ \E t, n \in Range(transactions) :
           /\ Recurs(t)
           /\ IsAutoGenerated(n)
           /\ n.next_occurrence = None
           /\ t.next_occurrence = NextDay(n.date)

\* C12: a stored transaction that is not recurring has recurrence type none and
\* no next_occurrence.
C12_NonRecurringHasNoRecurrence ==
    \A t \in Range(transactions) :
        ~t.is_recurring =>
            /\ t.recurrence_type = "none"
            /\ t.next_occurrence = None

IsDue(t) == \E i \in DOMAIN Due : Due[i] = t

\* What one sweep owes: one non-recurring instance per due transaction, dated
\* at the pointer it was due on; the due transaction still recurring with its
\* pointer moved on from that pointer; the others untouched; the count reported.
ProcessedEachDueOnce ==
    /\ resp'.status = 200
    /\ resp'.body = Len(Due)
    /\ Len(Added) = Len(Due)
    /\ \A i \in DOMAIN Due :
           /\ Added[i].date = Due[i].next_occurrence
           /\ ~Added[i].is_recurring
           /\ Added[i].recurrence_type = "none"
    /\ \A i \in DOMAIN transactions :
           IF IsDue(transactions[i])
           THEN transactions'[i] =
                    [transactions[i] EXCEPT !.next_occurrence =
                        ExpectedNext(transactions[i].next_occurrence,
                                     transactions[i].recurrence_type)]
           ELSE transactions'[i] = transactions[i]

\* C14: one sweep handles every due recurring transaction exactly once: one new
\* non-recurring transaction dated at its pointer, the pointer advanced from
\* itself by its cadence, transactions that are not due unchanged, and the
\* count of due transactions reported.
C14_SweepHandlesEachDueOnce ==
    [][process_recurring_transactions => ProcessedEachDueOnce]_vars

\* Every transaction a sweep appended copies the due transaction it comes from.
CopiesOriginal ==
    \A i \in DOMAIN Added :
        /\ i \in DOMAIN Due
        /\ Added[i].user_id = Due[i].user_id
        /\ Added[i].type = Due[i].type
        /\ Added[i].category = Due[i].category
        /\ Added[i].amount = Due[i].amount
        /\ Added[i].currency = Due[i].currency
        /\ Added[i].tags = Due[i].tags
        /\ Added[i].description = Due[i].description \o AutoGenerated

\* C15: a materialized transaction has the user, type, category, amount,
\* currency and tags of the recurring transaction it comes from, and that
\* transaction's description followed by the auto-generation marker.
C15_InstanceCopiesOriginal ==
    [][process_recurring_transactions => CopiesOriginal]_vars

\* C13: the recurrence calculator returns nothing for none, the next day for
\* daily, the day seven days on for weekly, the same day of the following month
\* for monthly (December to January of the next year) and the same month and
\* day of the following year for yearly, for every date.
C13_CalculatorReturnsNextOccurrence ==
    resp.op = "calculate_next_occurrence" =>
        resp.body = ExpectedNext(resp.req[1], resp.req[2])

(***************************************************************************)
(* What the summaries are expected to report.                              *)
(***************************************************************************)
\* The id of the user a request was made for.
Caller == (CHOOSE u \in Range(users) : u.username = resp.req[1]).id

MonthOf(t) == <<t.date[1], t.date[2]>>

MonthLT(a, b) == a[1] < b[1] \/ (a[1] = b[1] /\ a[2] < b[2])

InMonth(user_id, month) ==
    SelectSeq(OwnTransactions(user_id), LAMBDA t : MonthOf(t) = month)

TotalOf(docs, type) == SumAmounts(SelectSeq(docs, LAMBDA t : t.type = type))

Min(a, b) == IF a < b THEN a ELSE b

MonthlySummaryOf(user_id, summaries) ==
    LET months == {MonthOf(t) : t \in Range(OwnTransactions(user_id))}
        reported == {summaries[i].month : i \in DOMAIN summaries}
    IN  /\ Len(summaries) = Min(Cardinality(months), 12)
        /\ reported \subseteq months
        /\ \A i, j \in DOMAIN summaries :
               i < j => MonthLT(summaries[j].month, summaries[i].month)
        /\ \A month \in months \ reported, i \in DOMAIN summaries :
               MonthLT(month, summaries[i].month)
        /\ \A i \in DOMAIN summaries :
               LET group == InMonth(user_id, summaries[i].month)
               IN  /\ summaries[i].year = summaries[i].month[1]
                   /\ summaries[i].total_income = TotalOf(group, INCOME)
                   /\ summaries[i].total_expense = TotalOf(group, EXPENSE)
                   /\ summaries[i].net_amount =
                          TotalOf(group, INCOME) - TotalOf(group, EXPENSE)
                   /\ summaries[i].transactions_count = Len(group)

\* C16: the monthly summary has one entry per (year, month) of the caller's
\* transactions with the income total, the expense total, their difference and
\* the number of transactions of that month, latest month first, and only the
\* latest 12 months.
C16_MonthlySummary ==
    resp.op = "get_monthly_summary" => MonthlySummaryOf(Caller, resp.body)

\* The caller has transactions in more than 12 months, one of them holding an
\* income of 500 and an expense of 900, next to another user's transaction.
C16_Witness ==
    /\ resp.op = "get_monthly_summary"
    /\ Cardinality({MonthOf(t) : t \in Range(OwnTransactions(Caller))}) > 12
    /\ Len(OwnTransactions(Caller)) < Len(transactions)
    /\ Len(resp.body) = 12
    /\ \E i \in DOMAIN resp.body :
           /\ resp.body[i].total_income = 500
           /\ resp.body[i].total_expense = 900
           /\ resp.body[i].net_amount = -400
           /\ resp.body[i].transactions_count = 2

InWindow(user_id, days) ==
    SelectSeq(OwnTransactions(user_id),
              LAMBDA t : /\ DateLE(AddDays(AddDays(Epoch, clock), -days), t.date)
                         /\ DateLE(t.date, AddDays(Epoch, clock)))

DailyTrendsOf(user_id, days, trends) ==
    LET window == InWindow(user_id, days)
        dates == {t.date : t \in Range(window)}
    IN  /\ {trends[i].date : i \in DOMAIN trends} = dates
        /\ Len(trends) = Cardinality(dates)
        /\ \A i, j \in DOMAIN trends :
               i < j => DateLT(trends[i].date, trends[j].date)
        /\ \A i \in DOMAIN trends :
               LET day == SelectSeq(window, LAMBDA t : t.date = trends[i].date)
               IN  /\ trends[i].income = TotalOf(day, INCOME)
                   /\ trends[i].expense = TotalOf(day, EXPENSE)
                   /\ trends[i].net = trends[i].income - trends[i].expense

\* C17: the daily trends have one entry for every calendar day on which the
\* caller has a transaction dated from now - days to now, none for any other
\* day, each with that day's income and expense sums and their difference, in
\* ascending order of date.
C17_DailyTrends ==
    resp.op = "get_daily_trends" => DailyTrendsOf(Caller, resp.req[2], resp.body)

TrendPeriods == {"daily", "weekly", "monthly"}

\* The label format a period's buckets carry.
LabelFormat(period) ==
    CASE period = "daily" -> "YYYY-MM-DD"
      [] period = "weekly" -> "YYYY-Www"
      [] period = "monthly" -> "YYYY-MM"

Labels(data) == UNION {{e.date : e \in data[i]} : i \in DOMAIN data}

\* C18: spending_trends answers a period outside daily, weekly and monthly with
\* period "monthly" and monthly buckets, and a period inside them with that
\* period and buckets labelled in its format.
C18_SpendingTrendsPeriod ==
    resp.op = "get_spending_trends" =>
        LET period == IF resp.req[2] \in TrendPeriods THEN resp.req[2]
                      ELSE "monthly"
        IN  /\ resp.body.period = period
            /\ \A label \in Labels(resp.body.data) :
                   label.format = LabelFormat(period)

\* The caller's transactions dated within the calendar month of the request.
InCurrentMonth(user_id) ==
    SelectSeq(OwnTransactions(user_id),
              LAMBDA t : MonthOf(t) = <<AddDays(Epoch, clock)[1],
                                        AddDays(Epoch, clock)[2]>>)

GroupOf(t) == <<t.category, t.type, t.currency>>

CategoryBreakdownOf(user_id, chart_data) ==
    LET month == InCurrentMonth(user_id)
        total(docs) == SumAmounts(docs)
    IN  /\ {<<e.category, e.type, e.currency>> : e \in chart_data}
               = {GroupOf(t) : t \in Range(month)}
        /\ \A e \in chart_data :
               LET group == SelectSeq(month,
                                LAMBDA t : GroupOf(t) = <<e.category, e.type, e.currency>>)
                   bucket == SelectSeq(month,
                                LAMBDA t : t.type = e.type /\ t.currency = e.currency)
               IN  /\ e.total_amount = total(group)
                   /\ e.transactions_count = Len(group)
                   /\ e.percentage =
                          (IF total(bucket) = 0 THEN 0
                           ELSE RoundDiv(total(group) * 100 * 100, total(bucket)))
                   /\ e.percentage >= 0
                   /\ e.percentage <= 100 * 100

\* C19: the category breakdown covers exactly the caller's transactions dated
\* in the current calendar month, and each (category, type, currency) group
\* carries its share of its (type, currency) bucket in percent, rounded to two
\* decimals, 0 for an empty bucket total, always between 0 and 100.
C19_CategoryBreakdown ==
    resp.op = "get_category_breakdown" => CategoryBreakdownOf(Caller, resp.body)

\* C20: the savings rate financial_insights returns is between 0 and 100, and
\* is 0 when the total income is 0.
C20_SavingsRateRange ==
    (resp.op = "get_financial_insights" /\ resp.status = 200) =>
        /\ resp.body.savings_rate >= 0
        /\ resp.body.savings_rate <= 100 * 100
        /\ (\A c \in Currency : resp.body.total_income[c] = 0) =>
               resp.body.savings_rate = 0

TopCategoriesOf(user_id, days, top) ==
    LET expenses == SelectSeq(InWindow(user_id, days), LAMBDA t : t.type = EXPENSE)
        total(category, currency) ==
            SumAmounts(SelectSeq(expenses,
                LAMBDA t : t.category = category /\ t.currency = currency))
    IN  /\ Len(top) <= 5
        /\ \A i, j \in DOMAIN top : i < j => top[i].amount >= top[j].amount
        /\ \A i \in DOMAIN top :
               \E t \in Range(expenses) :
                   /\ top[i].category = t.category
                   /\ top[i].currency = t.currency
                   /\ top[i].amount = total(t.category, t.currency)

\* C27: the top spending categories financial_insights returns are at most
\* five, in descending order of amount, and each carries the category and the
\* currency of the caller's in-window expense transactions it sums, with their
\* sum as its amount.
C27_TopSpendingCategories ==
    (resp.op = "get_financial_insights" /\ resp.status = 200) =>
        TopCategoriesOf(Caller, resp.req[2], resp.body.top_spending_categories)

\* C30: for every user and every month with stored budgets of that user,
\* GET /budgets and budget_progress both answer with one entry per budget, and
\* the two entries of a budget agree on budget_amount, spent_amount and
\* remaining_amount.
C30_ListAndProgressAgree ==
    \A u \in Range(users), month \in {b.month : b \in Range(budgets)} :
        LET listed == get_budgets(budgets, transactions, u.id, month)
            progress == get_budget_progress(budgets, transactions, u.id, month)
            stored == SelectSeq(budgets,
                          LAMBDA b : b.user_id = u.id /\ b.month = month)
        IN  (stored # <<>> /\ ValidMonth(month)) =>
                /\ listed.status = 200
                /\ progress.status = 200
                /\ Len(listed.body) = Len(stored)
                /\ Len(progress.body) = Len(stored)
                /\ \A i \in DOMAIN stored :
                       /\ listed.body[i].budget_amount = progress.body[i].budget_amount
                       /\ listed.body[i].spent_amount = progress.body[i].spent_amount
                       /\ listed.body[i].remaining_amount
                              = progress.body[i].remaining_amount

Abs(x) == IF x < 0 THEN -x ELSE x

\* A generous bound on what two roundings to two decimals can move a round
\* trip by, in hundredths: a whole hundredth of the intermediate amount carried
\* back at the rate of the second step, plus a whole hundredth of the result.
WithinRoundingTolerance(difference, back_rate) ==
    back_rate.den * Abs(difference) <= back_rate.num + back_rate.den

\* C24: converting an amount from currency A to currency B and the result back
\* to A gives the amount again, up to the two roundings to two decimals; when
\* A = B the conversion returns exactly the amount.
C24_ConvertRoundTrip ==
    /\ (resp.op = "convert_currency" /\ resp.req[2] = resp.req[3]) =>
           resp.body.converted_amount = resp.req[1]
    /\ resp.op = "convert_currency_back" =>
           WithinRoundingTolerance(resp.body.converted_amount - resp.req[1],
                                   resp.body.rate)

\* A stored transaction satisfies every filter the request supplies.
SatisfiesFilters(t, filters) ==
    /\ filters.category # "" => t.category = filters.category
    /\ filters.type # "" => t.type = filters.type
    /\ filters.start_date # None => DateLE(filters.start_date, t.date)
    /\ filters.end_date # None => DateLE(t.date, filters.end_date)
    /\ filters.min_amount # None => filters.min_amount[1] <= t.amount
    /\ filters.max_amount # None => t.amount <= filters.max_amount[1]
    /\ filters.tags # <<>> => \E tag \in Range(filters.tags) : tag \in Range(t.tags)
    /\ filters.query # <<>> =>
           \E i \in 1..Len(t.description) :
               /\ i + Len(filters.query) - 1 <= Len(t.description)
               /\ \A k \in 1..Len(filters.query) :
                      Lower(t.description[i + k - 1]) = Lower(filters.query[k])

\* C21: search_transactions returns exactly the caller's transactions that
\* satisfy every supplied filter: category, type, inclusive date range,
\* inclusive amount range (each bound on its own, a bound of 0 included), at
\* least one requested tag, and the query as a case-insensitive substring of
\* the description.
C21_SearchReturnsExactlyTheMatches ==
    resp.op = "search_transactions" =>
        LET matches == SelectSeq(OwnTransactions(Caller),
                           LAMBDA t : SatisfiesFilters(t, resp.req[2]))
        IN  /\ Ids(resp.body) = Ids(matches)
            /\ Len(resp.body) = Len(matches)

\* C23: no derived computation faults on a zero denominator, each yields 0:
\* financial_insights answers for days = 0 with an average daily expense of 0
\* and reports a savings rate of 0 for a total income of 0; budget_progress
\* reports percentage_used = 0 for a budget_amount of 0; the category
\* breakdown reports a percentage of 0 for a bucket whose total is 0.
C23_ZeroDenominatorYieldsZero ==
    /\ resp.op = "get_financial_insights" =>
           /\ resp.status = 200
           /\ resp.req[2] = 0 =>
                  \A c \in Currency : resp.body.average_daily_expense[c] = 0
           /\ (\A c \in Currency : resp.body.total_income[c] = 0) =>
                  resp.body.savings_rate = 0
    /\ resp.op = "get_budget_progress" =>
           /\ resp.status = 200
           /\ \A i \in DOMAIN resp.body :
                  resp.body[i].budget_amount = 0 => resp.body[i].percentage_used = 0
    /\ resp.op = "get_category_breakdown" =>
           \A e \in resp.body :
               (\A o \in resp.body :
                    (o.type = e.type /\ o.currency = e.currency) => o.total_amount = 0)
                   => e.percentage = 0

\* A client error or a fault, as opposed to a 2xx answer.
IsErrorStatus(status) == status >= 400

\* C22: a malformed or out-of-domain request is rejected before any store
\* mutation: create_budget with a month that is not a valid YYYY-MM or with an
\* unknown category, and create_transaction with an unknown category or an
\* unknown recurrence type, answer with an error and leave the budgets and the
\* transactions collections as they were.
C22_RejectedBeforeAnyMutation ==
    [][/\ \A username \in Usernames, b \in ValidationBudgetRequests :
              (create_budget(username, b)
                   /\ (~ValidMonth(b.month) \/ b.category \notin TransactionCategory))
                  => /\ IsErrorStatus(resp'.status)
                     /\ budgets' = budgets
                     /\ transactions' = transactions
       /\ \A username \in Usernames, t \in ValidationTransactionRequests :
              (create_transaction(username, t)
                   /\ (t.category \notin TransactionCategory
                           \/ t.recurrence_type \notin RecurrenceType))
                  => /\ IsErrorStatus(resp'.status)
                     /\ budgets' = budgets
                     /\ transactions' = transactions]_vars

\* An appended transaction that materializes the occurrence of t at its
\* next_occurrence before the step.
MaterializedIn(added, t) ==
    \E i \in DOMAIN added :
        /\ added[i].user_id = t.user_id
        /\ added[i].date = t.next_occurrence
        /\ added[i].type = t.type
        /\ added[i].category = t.category
        /\ added[i].amount = t.amount
        /\ added[i].description = t.description \o AutoGenerated
        /\ ~added[i].is_recurring

\* C28: a sweep, whether it ends normally or by a fault partway through, never
\* leaves an original advanced without its instance: every stored transaction
\* whose next_occurrence the sweep changed has an auto-generated transaction
\* stored by that sweep for the occurrence that was passed.
C28_AdvancedOnlyWithInstance ==
    [][process_recurring_transactions =>
          \A i \in DOMAIN transactions :
              transactions'[i].next_occurrence # transactions[i].next_occurrence
                  => MaterializedIn(Added, transactions[i])]_vars

\* C29: at a fixed now, repeated sweeps eventually reach a state in which no
\* recurring transaction is due, and a sweep that finds nothing due reports 0
\* processed and leaves the store unchanged.
C29_RepeatedSweepsReachNoDue ==
    /\ <>(Due = <<>>)
    /\ [][(process_recurring_transactions /\ Due = <<>>) =>
              /\ resp'.status = 200
              /\ resp'.body = 0
              /\ transactions' = transactions]_vars

\* Two stored budgets of one (user, category, month, currency) key.
DuplicateBudget ==
    \E i, j \in DOMAIN budgets :
        /\ i < j
        /\ budgets[i].user_id = budgets[j].user_id
        /\ budgets[i].category = budgets[j].category
        /\ budgets[i].month = budgets[j].month
        /\ budgets[i].currency = budgets[j].currency

\* C25: the lookup and the write of create_budget are separate steps, so two
\* requests for one key that interleave can both find no budget and both
\* insert; as long as no request has looked a key up while another request for
\* that key was between its lookup and its write, the store holds at most one
\* budget per (user, category, month, currency).
C25_DuplicateBudgetOnlyByInterleaving ==
    ~overlapped => ~DuplicateBudget

C25_Witness ==
    /\ DuplicateBudget
    /\ overlapped
    /\ inflight = <<>>

\* Two stored auto-generated transactions for one occurrence: the same user,
\* contents and date.
DuplicateOccurrence ==
    \E i, j \in DOMAIN transactions :
        /\ i < j
        /\ ~transactions[i].is_recurring
        /\ ~transactions[j].is_recurring
        /\ IsAutoGenerated(transactions[i])
        /\ transactions[i].user_id = transactions[j].user_id
        /\ transactions[i].type = transactions[j].type
        /\ transactions[i].category = transactions[j].category
        /\ transactions[i].amount = transactions[j].amount
        /\ transactions[i].description = transactions[j].description
        /\ transactions[i].date = transactions[j].date

\* C26: an occurrence of a recurring transaction is materialized a second time
\* only by a run that read the due set while the update of that transaction's
\* next_occurrence by a run in flight was still to come: as long as no run has
\* read such a due set, the store holds at most one auto-generated transaction
\* per occurrence, while two overlapping runs can each store one.
C26_DuplicateOccurrenceOnlyByOverlap ==
    ~overlapped => ~DuplicateOccurrence

C26_Witness ==
    /\ DuplicateOccurrence
    /\ overlapped
    /\ inflight = <<>>

====
